---- MODULE Spec2Model ----
(***************************************************************************)
(* A model of gchat (src/src/main.rs): a watched chat transcript file, the *)
(* transcript parser, the @t/@p override resolver, the @f/@d directive     *)
(* expander, and the request orchestration of process_chat_file (an outer  *)
(* file-request loop around an inner truncation-escalation loop), driven   *)
(* by the polling loop of main.                                            *)
(*                                                                         *)
(* A text (a Rust String / &str) is a sequence of one-character strings,   *)
(* so that lines(), trim(), starts_with(), the regular expressions and the *)
(* appends are computed character by character as the code computes them.  *)
(***************************************************************************)
EXTENDS Integers, Sequences, FiniteSets, TLC

(***************************************************************************)
(* Characters and generic text helpers (Rust std str methods).             *)
(***************************************************************************)
NL == "\n"
\* The backquote character (the lexer of TLA+ has no string for it).
BQ == "<backquote>"

\* char::is_whitespace over the characters the model uses (str::trim, regex \s).
IsWs(c) == c \in {" ", NL, "\t", "\r"}

\* regex \d
IsDigit(c) == c \in {"0", "1", "2", "3", "4", "5", "6", "7", "8", "9"}

DigitVal(c) ==
    CASE c = "0" -> 0 [] c = "1" -> 1 [] c = "2" -> 2 [] c = "3" -> 3
      [] c = "4" -> 4 [] c = "5" -> 5 [] c = "6" -> 6 [] c = "7" -> 7
      [] c = "8" -> 8 [] c = "9" -> 9

MinOf(S) == CHOOSE x \in S : \A y \in S : x <= y
MaxOf(S) == 0 - MinOf({0 - x : x \in S})

\* str::trim
Trim(s) ==
    LET n == Len(s)
    IN  IF \A i \in 1..n : IsWs(s[i]) THEN <<>>
        ELSE SubSeq(s,
                    CHOOSE i \in 1..n :
                        ~IsWs(s[i]) /\ \A k \in 1..(i - 1) : IsWs(s[k]),
                    n + 1 - (CHOOSE i \in 1..n :
                                 /\ ~IsWs(s[n + 1 - i])
                                 /\ \A k \in 1..(i - 1) : IsWs(s[n + 1 - k])))

\* str::starts_with
StartsWith(s, p) == Len(s) >= Len(p) /\ SubSeq(s, 1, Len(p)) = p

\* str::contains
Contains(s, p) ==
    \E i \in 1..(Len(s) - Len(p) + 1) : SubSeq(s, i, i + Len(p) - 1) = p

\* The first index >= i whose character is c, or 0.
IndexFrom(s, i, c) ==
    IF \E j \in i..Len(s) : s[j] = c
    THEN CHOOSE j \in i..Len(s) : s[j] = c /\ \A k \in i..(j - 1) : s[k] /= c
    ELSE 0

\* The first index >= i that is not whitespace, or Len(s) + 1 (regex \s*).
SkipWs(s, i) ==
    IF \E j \in i..Len(s) : ~IsWs(s[j])
    THEN CHOOSE j \in i..Len(s) : ~IsWs(s[j]) /\ \A k \in i..(j - 1) : IsWs(s[k])
    ELSE Len(s) + 1

\* The first index >= i that is whitespace, or Len(s) + 1 (regex \S*).
SkipNonWs(s, i) ==
    IF \E j \in i..Len(s) : IsWs(s[j])
    THEN CHOOSE j \in i..Len(s) : IsWs(s[j]) /\ \A k \in i..(j - 1) : ~IsWs(s[k])
    ELSE Len(s) + 1

\* The first index >= i that is not a digit, or Len(s) + 1 (regex \d*).
SkipDigits(s, i) ==
    IF \E j \in i..Len(s) : ~IsDigit(s[j])
    THEN CHOOSE j \in i..Len(s) : ~IsDigit(s[j]) /\ \A k \in i..(j - 1) : IsDigit(s[k])
    ELSE Len(s) + 1

\* Whether s has character c at index i.
At(s, i, c) == i >= 1 /\ i <= Len(s) /\ s[i] = c

\* str::lines: split at "\n", a "\r" before the "\n" belongs to the line
\* ending, and a last line needs no line ending.
RECURSIVE LinesFrom(_, _)
LinesFrom(s, i) ==
    IF i > Len(s) THEN <<>>
    ELSE LET j == IndexFrom(s, i, NL)
         IN  IF j = 0 THEN <<SubSeq(s, i, Len(s))>>
             ELSE LET e == IF j - 1 >= i /\ s[j - 1] = "\r" THEN j - 2 ELSE j - 1
                  IN  <<SubSeq(s, i, e)>> \o LinesFrom(s, j + 1)

Lines(s) == LinesFrom(s, 1)

\* str::split(c): the pieces between the separators, empty pieces included.
RECURSIVE SplitFrom(_, _, _)
SplitFrom(s, i, c) ==
    LET j == IndexFrom(s, i, c)
    IN  IF j = 0 THEN <<SubSeq(s, i, Len(s))>>
        ELSE <<SubSeq(s, i, j - 1)>> \o SplitFrom(s, j + 1, c)

Split(s, c) == SplitFrom(s, 1, c)

\* F applied to the value of e, with e evaluated once.
Bind(e, F(_)) == CHOOSE r \in {F(v) : v \in {e}} : TRUE

Last(s) == s[Len(s)]

\* The concatenation of a sequence of texts.
RECURSIVE ConcatAll(_)
ConcatAll(ss) == IF ss = <<>> THEN <<>> ELSE Head(ss) \o ConcatAll(Tail(ss))

(***************************************************************************)
(* Program constants.                                                      *)
(***************************************************************************)
\* "GROK RESPONSE"
GROK_RESPONSE_MARKER == <<"G","R","O","K"," ","R","E","S","P","O","N","S","E">>
\* "USER PROMPT"
USER_PROMPT_MARKER == <<"U","S","E","R"," ","P","R","O","M","P","T">>
MAX_LEVEL == 5
\* The text of the system message; its content is never inspected by the
\* program, so one opaque character stands for it.
SYSTEM_INSTRUCTIONS == <<"<SYSTEM_INSTRUCTIONS>">>
\* "GROK REQUESTS FILES:"
REQUEST_PREFIX == <<"G","R","O","K"," ","R","E","Q","U","E","S","T","S"," ","F","I","L","E","S",":">>
\* "\n\nGROK REQUESTED FILES:" followed by writeln's "\n"
ARTIFACT_HEADER == <<NL,NL,"G","R","O","K"," ","R","E","Q","U","E","S","T","E","D"," ","F","I","L","E","S",":",NL>>

\* 512u32 << level
parse_level(level) == 512 * (2 ^ level)

(***************************************************************************)
(* Transcript Parser: parse_chat_messages.                                 *)
(***************************************************************************)
Message(role, content) == [role |-> role, content |-> content]

\* The section that is closing becomes a message if its trimmed content is
\* not empty; a section opened by no marker has role user.
FlushSection(messages, current_role, current_content) ==
    LET trimmed == Trim(current_content)
    IN  IF trimmed /= <<>>
        THEN Append(messages,
                    Message(IF current_role = "none" THEN "user" ELSE current_role,
                            trimmed))
        ELSE messages

\* The loop over content.lines(): state (messages, current_role, current_content).
RECURSIVE ParseLines(_, _, _, _, _)
ParseLines(lines, i, messages, current_role, current_content) ==
    IF i > Len(lines)
    THEN FlushSection(messages, current_role, current_content)
    ELSE LET line    == lines[i]
             is_user == line = USER_PROMPT_MARKER \o <<":">>
         IN  IF is_user \/ line = GROK_RESPONSE_MARKER \o <<":">>
             THEN ParseLines(lines, i + 1,
                             FlushSection(messages, current_role, current_content),
                             IF is_user THEN "user" ELSE "assistant",
                             <<>>)
             ELSE ParseLines(lines, i + 1, messages, current_role,
                             current_content \o line \o <<NL>>)

parse_chat_messages(content) ==
    Bind(Lines(content), LAMBDA lines : ParseLines(lines, 1, <<>>, "none", <<>>))

(***************************************************************************)
(* Regular expressions of the program, matched as the regex crate matches  *)
(* them: leftmost first, greedy, non-overlapping (captures_iter).          *)
(* A match is [start, end, cap]: the span start..end-1 and the text of the *)
(* capture group; NoMatch has end = 0.                                     *)
(***************************************************************************)
NoMatch == [start |-> 0, end |-> 0, cap |-> <<>>, kind |-> "none"]

\* @t\s*:\s*L(\d+) anchored at i
MatchT(s, i) ==
    IF ~(At(s, i, "@") /\ At(s, i + 1, "t")) THEN NoMatch
    ELSE LET j == SkipWs(s, i + 2)
         IN  IF ~At(s, j, ":") THEN NoMatch
             ELSE LET k == SkipWs(s, j + 1)
                  IN  IF ~At(s, k, "L") THEN NoMatch
                      ELSE LET e == SkipDigits(s, k + 1)
                           IN  IF e = k + 1 THEN NoMatch
                               ELSE [start |-> i, end |-> e,
                                     cap |-> SubSeq(s, k + 1, e - 1), kind |-> "t"]

\* @p\s*:\s*(\d*\.?\d+) anchored at i: the digits, then "." and digits if
\* digits follow the "."; digits alone otherwise.
MatchP(s, i) ==
    IF ~(At(s, i, "@") /\ At(s, i + 1, "p")) THEN NoMatch
    ELSE LET j == SkipWs(s, i + 2)
         IN  IF ~At(s, j, ":") THEN NoMatch
             ELSE LET k  == SkipWs(s, j + 1)
                      e1 == SkipDigits(s, k)
                      e2 == IF At(s, e1, ".") THEN SkipDigits(s, e1 + 1) ELSE e1
                      e  == IF At(s, e1, ".") /\ e2 > e1 + 1 THEN e2
                            ELSE IF e1 > k THEN e1 ELSE 0
                  IN  IF e = 0 THEN NoMatch
                      ELSE [start |-> i, end |-> e,
                            cap |-> SubSeq(s, k, e - 1), kind |-> "p"]

\* @f\s*:(\S+)|@d\s*:(\S+) anchored at i; kind tells which group matched.
MatchFD(s, i) ==
    IF ~(At(s, i, "@") /\ (At(s, i + 1, "f") \/ At(s, i + 1, "d"))) THEN NoMatch
    ELSE LET j == SkipWs(s, i + 2)
         IN  IF ~At(s, j, ":") THEN NoMatch
             ELSE LET e == SkipNonWs(s, j + 1)
                  IN  IF e = j + 1 THEN NoMatch
                      ELSE [start |-> i, end |-> e,
                            cap |-> SubSeq(s, j + 1, e - 1),
                            kind |-> IF s[i + 1] = "f" THEN "f" ELSE "d"]

MatchAt(re, s, i) ==
    CASE re = "t"  -> MatchT(s, i)
      [] re = "p"  -> MatchP(s, i)
      [] re = "fd" -> MatchFD(s, i)

\* Regex::captures_iter: every match, left to right, none overlapping.
RECURSIVE CapturesFrom(_, _, _)
CapturesFrom(re, s, i) ==
    LET starts == {j \in i..Len(s) : s[j] = "@" /\ MatchAt(re, s, j).end /= 0}
    IN  IF starts = {} THEN <<>>
        ELSE Bind(MatchAt(re, s, MinOf(starts)), LAMBDA m :
                 <<m>> \o CapturesFrom(re, s, m.end))

captures_iter(re, s) == CapturesFrom(re, s, 1)

\* new_content.replace_range(range, "") for every range, last range first:
\* what is left is the text outside the ranges.
RECURSIVE RemoveRanges(_, _, _, _)
RemoveRanges(s, ms, k, last_end) ==
    IF k > Len(ms) THEN SubSeq(s, last_end, Len(s))
    ELSE SubSeq(s, last_end, ms[k].start - 1) \o RemoveRanges(s, ms, k + 1, ms[k].end)

StripMatches(s, ms) == RemoveRanges(s, ms, 1, 1)

(***************************************************************************)
(* Number parsing.  None is -1 for an Option<u32>.                         *)
(***************************************************************************)
None == -1

RECURSIVE DigitsValue(_, _)
DigitsValue(ds, acc) ==
    IF ds = <<>> THEN acc ELSE DigitsValue(Tail(ds), acc * 10 + DigitVal(Head(ds)))

StripZeros(ds) ==
    LET nz == {i \in 1..Len(ds) : ds[i] /= "0"}
    IN  IF nz = {} THEN <<>> ELSE SubSeq(ds, MinOf(nz), Len(ds))

\* A value of 10^9 or more is represented by 10^9: such a value is only ever
\* compared with MAX_LEVEL.
Saturated == 1000000000

\* str::parse::<u32> of a digit string: its value, or None when it exceeds
\* u32::MAX = 4294967295.
ParseU32(ds) ==
    LET sig == StripZeros(ds)
    IN  IF Len(sig) <= 9 THEN DigitsValue(sig, 0)
        ELSE IF Len(sig) = 10
                /\ LET hi == DigitsValue(SubSeq(sig, 1, 5), 0)
                       lo == DigitsValue(SubSeq(sig, 6, 10), 0)
                   IN  hi < 42949 \/ (hi = 42949 /\ lo <= 67295)
             THEN Saturated
             ELSE None

\* A temperature is an f32 that is not negative, [m, e] for m * 2^e: m is
\* the 24-bit significand, 2^23 <= m < 2^24 unless e = -149 (zero and the
\* subnormal numbers); every value has one record.
F32(m, e) == [m |-> m, e |-> e]

\* A decimal number: its digits and how many of them follow the point.
Decimal(digits, point) == [digits |-> digits, point |-> point]

\* The decimal without the leading zeros of its integer part.
StripLeading(d) ==
    LET nz == {i \in 1..(Len(d.digits) - d.point) : d.digits[i] /= 0}
    IN  Decimal(SubSeq(d.digits, IF nz = {} THEN Len(d.digits) - d.point + 1 ELSE MinOf(nz),
                       Len(d.digits)),
                d.point)

\* Twice the decimal: a digit takes a carry when the digit after it is 5 or
\* more.
Double(d) ==
    LET n == Len(d.digits)
    IN  Decimal((IF n > 0 /\ d.digits[1] >= 5 THEN <<1>> ELSE <<>>)
                    \o [i \in 1..n |->
                           (2 * d.digits[i]
                              + (IF i < n /\ d.digits[i + 1] >= 5 THEN 1 ELSE 0)) % 10],
                d.point)

\* Half the decimal: a digit takes ten when the digit before it is odd.
Halve(d) ==
    LET n == Len(d.digits)
    IN  StripLeading(
            Decimal([i \in 1..n |->
                        (d.digits[i]
                           + (IF i > 1 /\ d.digits[i - 1] % 2 = 1 THEN 10 ELSE 0)) \div 2]
                        \o (IF n > 0 /\ d.digits[n] % 2 = 1 THEN <<5>> ELSE <<>>),
                    IF n > 0 /\ d.digits[n] % 2 = 1 THEN d.point + 1 ELSE d.point))

\* The integer part of a decimal without leading zeros; 10^8, which is more
\* than 2^24, stands for any integer part of more than 8 digits.
RECURSIVE IntPart(_)
IntPart(d) ==
    LET k == Len(d.digits) - d.point
    IN  IF k > 8 THEN 100000000
        ELSE IF k = 0 THEN 0
        ELSE 10 * IntPart(Decimal(SubSeq(d.digits, 1, k - 1), 0)) + d.digits[k]

\* n times Halve, n times Double
RECURSIVE HalveN(_, _)
HalveN(d, n) ==
    IF n = 0 THEN d
    ELSE IF n = 1 THEN Halve(d)
    ELSE Bind(HalveN(d, n \div 2), LAMBDA h : HalveN(h, n - n \div 2))

RECURSIVE DoubleN(_, _)
DoubleN(d, n) ==
    IF n = 0 THEN d
    ELSE IF n = 1 THEN Double(d)
    ELSE Bind(DoubleN(d, n \div 2), LAMBDA h : DoubleN(h, n - n \div 2))

\* The decimal scaled by a power of two so that its integer part is the
\* significand before rounding: [d, e] with value = d * 2^e.  Doubling and
\* halving are exact, so several are taken at once: a decimal with k > 8
\* integer digits is at least 10^(k - 1) and stays above 2^23 when halved
\* 3 * (k - 8) times; one with the integer part m0, 2^b <= m0 < 2^(b + 1),
\* reaches 2^23 when doubled 23 - b times; one with z zeros after the point
\* is below 10^-z and stays below 1 when doubled 3 * z times.
RECURSIVE Scale(_, _)
Scale(d, e) ==
    LET k == Len(d.digits) - d.point
    IN  IF k > 8
        THEN IF e >= 105 THEN [d |-> d, e |-> e]
             ELSE Scale(HalveN(d, 3 * (k - 8)), e + 3 * (k - 8))
        ELSE Bind(IntPart(d), LAMBDA m0 :
            IF m0 >= 16777216
            THEN IF e >= 105 THEN [d |-> d, e |-> e] ELSE Scale(Halve(d), e + 1)
            ELSE IF m0 < 8388608 /\ e > -149
            THEN LET b == CHOOSE x \in 0..22 : 2 ^ x <= m0 /\ m0 < 2 ^ (x + 1)
                     nz == {i \in (k + 1)..Len(d.digits) : d.digits[i] /= 0}
                     z == IF nz = {} THEN 0 ELSE MinOf(nz) - k - 1
                     want == IF m0 /= 0 THEN 23 - b ELSE IF z = 0 THEN 1 ELSE 3 * z
                     n == IF want < e + 149 THEN want ELSE e + 149
                 IN  Scale(DoubleN(d, n), e - n)
            ELSE [d |-> d, e |-> e])

\* Round to nearest, ties to even, on the fraction of a scaled decimal; a
\* decimal of 2^128 or more parses to infinity, written F32(2^23, 105).
RoundF32(d, e) ==
    LET F32Infinity == F32(8388608, 105)
        n    == Len(d.digits)
        f    == SubSeq(d.digits, n - d.point + 1, n)
        rest == \E i \in 2..Len(f) : f[i] /= 0
        up   == f /= <<>> /\ (f[1] > 5 \/ (f[1] = 5 /\ rest))
        tie  == f /= <<>> /\ f[1] = 5 /\ ~rest
        m0   == IntPart(d)
        m    == IF up \/ (tie /\ m0 % 2 = 1) THEN m0 + 1 ELSE m0
    IN  IF e >= 105 \/ m0 >= 16777216 THEN F32Infinity
        ELSE IF m = 16777216
             THEN (IF e + 1 >= 105 THEN F32Infinity ELSE F32(8388608, e + 1))
        ELSE F32(m, e)

\* str::parse::<f32> of a text matched by \d*\.?\d+ (it never fails): the
\* f32 nearest to the decimal.
ParseF32(t) ==
    LET dot == IndexFrom(t, 1, ".")
        ip  == IF dot = 0 THEN t ELSE SubSeq(t, 1, dot - 1)
        fp  == IF dot = 0 THEN <<>> ELSE SubSeq(t, dot + 1, Len(t))
        d   == StripLeading(Decimal([i \in 1..(Len(ip) + Len(fp)) |->
                                        DigitVal((ip \o fp)[i])], Len(fp)))
    IN  IF \A i \in 1..Len(d.digits) : d.digits[i] = 0 THEN F32(0, -149)
        ELSE Bind(Scale(d, 0), LAMBDA s : RoundF32(s.d, s.e))

\* local_temperature < 0.0 || local_temperature > 2.0 (2.0 is 2^23 * 2^-22)
TempOutOfRange(t) == t.e > -22 \/ (t.e = -22 /\ t.m > 8388608)

(***************************************************************************)
(* Turn Parameter Resolver (process_chat_file, the @t and @p loops).       *)
(***************************************************************************)
\* The value of the last capture that parses, or None (last_level).
RECURSIVE LastParsed(_, _, _)
LastParsed(ms, k, last) ==
    IF k > Len(ms) THEN last
    ELSE LET v == ParseU32(ms[k].cap)
         IN  LastParsed(ms, k + 1, IF v /= None THEN v ELSE last)

\* The @t loop with persistent_level set from every user message, also from
\* one that holds no directive: a faulty variant.
RECURSIVE StripTLastMessage(_, _, _)
StripTLastMessage(messages, i, persistent_level) ==
    IF i > Len(messages) THEN [messages |-> messages, value |-> persistent_level]
    ELSE IF messages[i].role = "user"
         THEN Bind(captures_iter("t", messages[i].content), LAMBDA ms :
              Bind(LastParsed(ms, 1, None), LAMBDA last_level :
              Bind([messages EXCEPT ![i].content = StripMatches(@, ms)], LAMBDA stripped :
                  StripTLastMessage(stripped, i + 1, last_level))))
         ELSE StripTLastMessage(messages, i + 1, persistent_level)

\* The loop over messages for @t: every match is removed from every user
\* message, and persistent_level is the last_level of the last user message
\* that has one.  Returns [messages, value].
RECURSIVE StripT(_, _, _)
StripT(messages, i, persistent_level) ==
    IF i > Len(messages) THEN [messages |-> messages, value |-> persistent_level]
    ELSE IF messages[i].role = "user"
         THEN Bind(captures_iter("t", messages[i].content), LAMBDA ms :
              Bind(LastParsed(ms, 1, None), LAMBDA last_level :
              Bind([messages EXCEPT ![i].content = StripMatches(@, ms)], LAMBDA stripped :
                  StripT(stripped, i + 1,
                         IF last_level /= None THEN last_level ELSE persistent_level))))
         ELSE StripT(messages, i + 1, persistent_level)

NoTemp == [m |-> None, e |-> 0]

\* The same loop for @p; persistent_temperature is NoTemp when there is none.
RECURSIVE StripP(_, _, _)
StripP(messages, i, persistent_temperature) ==
    IF i > Len(messages) THEN [messages |-> messages, value |-> persistent_temperature]
    ELSE IF messages[i].role = "user"
         THEN Bind(captures_iter("p", messages[i].content), LAMBDA ms :
              Bind(IF ms = <<>> THEN NoTemp ELSE ParseF32(ms[Len(ms)].cap), LAMBDA last_temp :
              Bind([messages EXCEPT ![i].content = StripMatches(@, ms)], LAMBDA stripped :
                  StripP(stripped, i + 1,
                         IF last_temp /= NoTemp THEN last_temp ELSE persistent_temperature))))
         ELSE StripP(messages, i + 1, persistent_temperature)

\* current_level without the cap: a faulty variant.
ResolveLevelUncapped(persistent_level, default_level) ==
    IF persistent_level = None THEN default_level ELSE persistent_level

\* current_level: the persistent level capped at MAX_LEVEL, or the default.
ResolveLevel(persistent_level, default_level) ==
    IF persistent_level = None THEN default_level
    ELSE IF persistent_level > MAX_LEVEL THEN MAX_LEVEL ELSE persistent_level

\* local_temperature: the persistent temperature as it is, or the default.
ResolveTemperature(persistent_temperature, default_temperature) ==
    IF persistent_temperature = NoTemp THEN default_temperature
    ELSE persistent_temperature

(***************************************************************************)
(* The filesystem the program runs in: the environment of canonicalize,    *)
(* exists, is_dir, is_file, read_to_string, WalkDir and glob.  A node is   *)
(* named by its absolute path, a sequence of names (a name is a text).     *)
(* The working directory is /w; /e and /w/o (a symbolic link to /e) lead   *)
(* outside it.                                                             *)
(***************************************************************************)
CWD == << <<"w">> >>

FS == {
    [path |-> <<>>,                     kind |-> "dir",  content |-> <<>>,    target |-> <<>>],
    [path |-> << <<"w">> >>,            kind |-> "dir",  content |-> <<>>,    target |-> <<>>],
    [path |-> << <<"w">>, <<"a">> >>,   kind |-> "file", content |-> <<"A">>, target |-> <<>>],
    [path |-> << <<"w">>, <<"s">> >>,   kind |-> "file", content |-> <<"S">>, target |-> <<>>],
    [path |-> << <<"w">>, <<"d">> >>,   kind |-> "dir",  content |-> <<>>,    target |-> <<>>],
    [path |-> << <<"w">>, <<"d">>, <<"f">> >>,
                                        kind |-> "file", content |-> <<"F">>, target |-> <<>>],
    [path |-> << <<"w">>, <<"n">> >>,   kind |-> "dir",  content |-> <<>>,    target |-> <<>>],
    [path |-> << <<"w">>, <<"u">> >>,   kind |-> "unreadable",
                                                         content |-> <<>>,    target |-> <<>>],
    [path |-> << <<"w">>, <<"o">> >>,   kind |-> "link", content |-> <<>>,    target |-> << <<"e">> >>],
    [path |-> << <<"e">> >>,            kind |-> "file", content |-> <<"E">>, target |-> <<>>]
}

NoNode == [path |-> <<>>, kind |-> "none", content |-> <<>>, target |-> <<>>]

FsNode(abs) ==
    IF \E n \in FS : n.path = abs THEN CHOOSE n \in FS : n.path = abs ELSE NoNode

IsPrefix(p, q) == Len(p) <= Len(q) /\ SubSeq(q, 1, Len(p)) = p

\* Path resolution as the kernel does it (realpath): each name is looked up
\* in the directory reached so far, "" and "." stay, ".." goes up, a symbolic
\* link is followed.  [ok, path]: the canonical absolute path.
RECURSIVE WalkPath(_, _, _)
WalkPath(cur, comps, k) ==
    IF k > Len(comps) THEN [ok |-> TRUE, path |-> cur]
    ELSE IF FsNode(cur).kind /= "dir" THEN [ok |-> FALSE, path |-> <<>>]
    ELSE LET c == comps[k]
         IN  IF c = <<>> \/ c = <<".">> THEN WalkPath(cur, comps, k + 1)
             ELSE IF c = <<".", ".">>
                  THEN WalkPath(IF cur = <<>> THEN cur ELSE SubSeq(cur, 1, Len(cur) - 1),
                                comps, k + 1)
             ELSE LET n == FsNode(Append(cur, c))
                  IN  IF n.kind = "none" THEN [ok |-> FALSE, path |-> <<>>]
                      ELSE IF n.kind = "link" THEN WalkPath(n.target, comps, k + 1)
                      ELSE WalkPath(n.path, comps, k + 1)

\* Path::is_absolute
is_absolute(p) == At(p, 1, "/")

\* The node a path text names for a process whose working directory is CWD.
Resolve(p) ==
    IF p = <<>> THEN [ok |-> FALSE, path |-> <<>>]
    ELSE WalkPath(IF is_absolute(p) THEN <<>> ELSE CWD, Split(p, "/"), 1)

\* cwd.join(path).canonicalize() for a path that is not absolute
canonicalize_in_cwd(p) == WalkPath(CWD, Split(p, "/"), 1)

ResolvedKind(p) == IF Resolve(p).ok THEN FsNode(Resolve(p).path).kind ELSE "none"

\* Path::exists, Path::is_dir, Path::is_file (they follow symbolic links)
path_exists(p) == Resolve(p).ok
path_is_dir(p) == ResolvedKind(p) = "dir"
path_is_file(p) == ResolvedKind(p) \in {"file", "unreadable"}

\* fs::read_to_string: [ok, text]
read_to_string(p) ==
    IF ResolvedKind(p) = "file"
    THEN [ok |-> TRUE, text |-> FsNode(Resolve(p).path).content]
    ELSE [ok |-> FALSE, text |-> <<>>]

\* Character order: the ASCII characters in increasing order.
AsciiOrder == <<"\t", NL, "\r", " ", "!", "\"", "#", "$", "%", "&", "'",
                "(", ")", "*", "+", ",", "-", ".", "/", "0", "1", "2", "3",
                "4", "5", "6", "7", "8", "9", ":", ";", "<", "=", ">", "?",
                "@", "A", "B", "C", "D", "E", "F", "G", "H", "I", "J", "K",
                "L", "M", "N", "O", "P", "Q", "R", "S", "T", "U", "V", "W",
                "X", "Y", "Z", "[", "\\", "]", "^", "_", BQ, "a", "b", "c",
                "d", "e", "f", "g", "h", "i", "j", "k", "l", "m", "n", "o",
                "p", "q", "r", "s", "t", "u", "v", "w", "x", "y", "z", "{",
                "|", "}", "~">>
CharCode(c) ==
    IF \E i \in 1..Len(AsciiOrder) : AsciiOrder[i] = c
    THEN CHOOSE i \in 1..Len(AsciiOrder) : AsciiOrder[i] = c
    ELSE 0

\* a < b for two texts
RECURSIVE TextLess(_, _)
TextLess(a, b) ==
    IF b = <<>> THEN FALSE
    ELSE IF a = <<>> THEN TRUE
    ELSE IF Head(a) = Head(b) THEN TextLess(Tail(a), Tail(b))
    ELSE CharCode(Head(a)) < CharCode(Head(b))

\* a < b for two paths, name by name (the order of PathBuf)
RECURSIVE PathLess(_, _)
PathLess(a, b) ==
    IF b = <<>> THEN FALSE
    ELSE IF a = <<>> THEN TRUE
    ELSE IF Head(a) = Head(b) THEN PathLess(Tail(a), Tail(b))
    ELSE TextLess(Head(a), Head(b))

\* A set of paths as a sequence in increasing order (sort).
RECURSIVE SortPaths(_)
SortPaths(S) ==
    IF S = {} THEN <<>>
    ELSE LET m == CHOOSE x \in S : \A y \in S \ {x} : PathLess(x, y)
         IN  <<m>> \o SortPaths(S \ {m})

\* The names of a path joined by "/".
RECURSIVE JoinNames(_)
JoinNames(names) ==
    IF names = <<>> THEN <<>>
    ELSE IF Len(names) = 1 THEN names[1]
    ELSE names[1] \o <<"/">> \o JoinNames(Tail(names))

\* Path::join of a path text and a relative path
JoinPath(p, rel) ==
    IF rel = <<>> THEN p
    ELSE IF p = <<>> THEN JoinNames(rel)
    ELSE IF p[Len(p)] = "/" THEN p \o JoinNames(rel)
    ELSE p \o <<"/">> \o JoinNames(rel)

\* WalkDir::new(path): the relative paths of everything below the directory
\* (links are not followed below the root).
WalkDirEntries(p) ==
    LET root == Resolve(p).path
    IN  {SubSeq(n.path, Len(root) + 1, Len(n.path)) :
            n \in {m \in FS : IsPrefix(root, m.path) /\ m.path /= root}}

(***************************************************************************)
(* glob (the glob crate): Pattern::new and Pattern::matches for one path   *)
(* component, and the walk of glob().  A path is the text glob yields.     *)
(***************************************************************************)
\* parse_char_specifiers: the characters and ranges between the brackets
RECURSIVE CharSpecifiers(_, _)
CharSpecifiers(cs, i) ==
    IF i > Len(cs) THEN <<>>
    ELSE IF i + 2 <= Len(cs) /\ cs[i + 1] = "-"
         THEN <<[lo |-> cs[i], hi |-> cs[i + 2]]>> \o CharSpecifiers(cs, i + 3)
         ELSE <<[lo |-> cs[i], hi |-> cs[i]]>> \o CharSpecifiers(cs, i + 1)

\* Pattern::new for a component (it holds no separator): [ok, tokens].  A
\* token is a character, "?" (any), "*" (seq), "**" (rec, only as the whole
\* component), "[...]" (within) or "[!...]" (except); anything else in
\* stars or brackets is an error.
RECURSIVE PatternTokens(_, _)
PatternTokens(cs, i) ==
    IF i > Len(cs) THEN [ok |-> TRUE, tokens |-> <<>>]
    ELSE LET c == cs[i]
             NoTokens == [ok |-> FALSE, tokens |-> <<>>]
             Then(token, next) ==
                 Bind(PatternTokens(cs, next), LAMBDA r :
                     IF r.ok THEN [ok |-> TRUE, tokens |-> <<token>> \o r.tokens]
                     ELSE NoTokens)
             Close(from) == {q \in from..Len(cs) : cs[q] = "]"}
         IN  IF c = "?" THEN Then([t |-> "any", c |-> "", specs |-> <<>>], i + 1)
             ELSE IF c = "*"
             THEN LET j == MinOf({q \in i..(Len(cs) + 1) : q > Len(cs) \/ cs[q] /= "*"})
                  IN  IF j - i > 2 THEN NoTokens
                      ELSE IF j - i = 2
                      THEN IF i = 1 /\ j > Len(cs)
                           THEN [ok |-> TRUE,
                                 tokens |-> <<[t |-> "rec", c |-> "", specs |-> <<>>]>>]
                           ELSE NoTokens
                      ELSE Then([t |-> "seq", c |-> "", specs |-> <<>>], j)
             ELSE IF c = "["
             THEN IF i + 3 <= Len(cs) /\ cs[i + 1] = "!"
                  THEN IF Close(i + 3) = {} THEN NoTokens
                       ELSE LET q == MinOf(Close(i + 3))
                            IN  Then([t |-> "except", c |-> "",
                                      specs |-> CharSpecifiers(SubSeq(cs, i + 2, q - 1), 1)],
                                     q + 1)
                  ELSE IF i + 2 <= Len(cs) /\ cs[i + 1] /= "!"
                  THEN IF Close(i + 2) = {} THEN NoTokens
                       ELSE LET q == MinOf(Close(i + 2))
                            IN  Then([t |-> "within", c |-> "",
                                      specs |-> CharSpecifiers(SubSeq(cs, i + 1, q - 1), 1)],
                                     q + 1)
                  ELSE NoTokens
             ELSE Then([t |-> "char", c |-> c, specs |-> <<>>], i + 1)

\* Pattern::matches_with for tokens and a name, with the default options;
\* InCharSpecifiers is in_char_specifiers.
RECURSIVE TokensMatch(_, _)
TokensMatch(tokens, name) ==
    IF tokens = <<>> THEN name = <<>>
    ELSE LET token == Head(tokens)
             InCharSpecifiers(specs, c) ==
                 \E k \in 1..Len(specs) :
                     /\ CharCode(specs[k].lo) <= CharCode(c)
                     /\ CharCode(c) <= CharCode(specs[k].hi)
         IN  IF token.t \in {"seq", "rec"}
             THEN TokensMatch(Tail(tokens), name)
                  \/ (name /= <<>> /\ TokensMatch(tokens, Tail(name)))
             ELSE /\ name /= <<>>
                  /\ CASE token.t = "any"    -> TRUE
                       [] token.t = "within" -> InCharSpecifiers(token.specs, Head(name))
                       [] token.t = "except" -> ~InCharSpecifiers(token.specs, Head(name))
                       [] token.t = "char"   -> token.c = Head(name)
                  /\ TokensMatch(Tail(tokens), Tail(name))

\* Pattern::new(pat).matches(name) for one component; FALSE for a pattern
\* that Pattern::new refuses.
WildMatch(pat, name) ==
    PatternTokens(pat, 1).ok /\ TokensMatch(PatternTokens(pat, 1).tokens, name)

\* Path::join of a path and one name or the empty text
JoinName(path, name) ==
    IF path /= <<>> /\ path[Len(path)] = "/" THEN path \o name
    ELSE path \o <<"/">> \o name

\* The walk of Paths::next and fill_todo over the patterns of the components.
\* GlobFill is fill_todo(todo, patterns, idx, path): the paths glob yields
\* from there; GlobEntry is the loop body of next for an entry (path, idx)
\* that read_dir gave; GlobAdd is the closure add.  In GlobFill, IsLiteral
\* and LiteralText are pattern_as_str (the pattern holds characters only),
\* IsCurDir is path == Path::new(".") (the path has the one component "."),
\* MetadataOk is fs::metadata(p).is_ok() || fs::symlink_metadata(p).is_ok()
\* and ReadDirNames is fs::read_dir(path), the names in the directory.
RECURSIVE GlobFill(_, _, _, _), GlobEntry(_, _, _, _)
GlobAdd(pats, idx, next_path, require_dir) ==
    IF idx = Len(pats)
    THEN IF require_dir /\ ~path_is_dir(next_path) THEN {} ELSE {next_path}
    ELSE GlobFill(pats, idx + 1, next_path, require_dir)

GlobMatchEntry(pats, idx, path, require_dir) ==
    IF TokensMatch(pats[idx], Last(Split(path, "/")))
    THEN IF idx = Len(pats)
         THEN IF ~require_dir \/ path_is_dir(path) THEN {path} ELSE {}
         ELSE GlobFill(pats, idx + 1, path, require_dir)
    ELSE {}

GlobEntry(pats, idx, path, require_dir) ==
    LET IsRecursive(tokens) == tokens /= <<>> /\ tokens[1].t = "rec"
    IN
    IF IsRecursive(pats[idx])
    THEN LET next == MaxOf({k \in idx..Len(pats) :
                               \A j \in idx..k : IsRecursive(pats[j])})
         IN  IF path_is_dir(path)
             THEN GlobFill(pats, next, path, require_dir)
                  \cup (IF next = Len(pats) THEN {path}
                        ELSE GlobMatchEntry(pats, next + 1, path, require_dir))
             ELSE IF next = Len(pats) THEN {}
             ELSE GlobMatchEntry(pats, next + 1, path, require_dir)
    ELSE GlobMatchEntry(pats, idx, path, require_dir)

GlobFill(pats, idx, path, require_dir) ==
    LET IsLiteral(tokens) == \A k \in 1..Len(tokens) : tokens[k].t = "char"
        LiteralText(tokens) == [k \in 1..Len(tokens) |-> tokens[k].c]
        IsCurDir(p) ==
            /\ ~is_absolute(p)
            /\ \E k \in 1..Len(Split(p, "/")) : Split(p, "/")[k] /= <<>>
            /\ \A k \in 1..Len(Split(p, "/")) : Split(p, "/")[k] \in {<<>>, <<".">>}
        MetadataOk(p) == p /= <<>> /\ path_exists(p)
        ReadDirNames(p) ==
            {n.path[Len(n.path)] :
                n \in {m \in FS : /\ Resolve(p).ok
                                  /\ Len(m.path) = Len(Resolve(p).path) + 1
                                  /\ IsPrefix(Resolve(p).path, m.path)}}
    IN
    IF IsLiteral(pats[idx])
    THEN LET s         == LiteralText(pats[idx])
             special   == s \in {<<".">>, <<".", ".">>}
             next_path == IF IsCurDir(path) THEN s ELSE JoinName(path, s)
         IN  IF (special /\ path_is_dir(path)) \/ (~special /\ MetadataOk(next_path))
             THEN GlobAdd(pats, idx, next_path, require_dir)
             ELSE {}
    ELSE IF path_is_dir(path)
    THEN UNION {GlobEntry(pats, idx,
                          IF IsCurDir(path) THEN name ELSE JoinName(path, name),
                          require_dir) : name \in ReadDirNames(path)}
         \cup UNION {IF pats[idx][1].t = "char" /\ pats[idx][1].c = "."
                        /\ TokensMatch(pats[idx], special)
                     THEN GlobAdd(pats, idx, JoinName(path, special), require_dir)
                     ELSE {} : special \in {<<".">>, <<".", ".">>}}
    ELSE {}

\* glob(pattern): [ok, paths]; not ok when a component is not a pattern.
\* The walk starts at "/" for an absolute pattern and at "." otherwise.
\* SplitTerminator is split_terminator: the pieces between separators,
\* without a last empty one.
GlobPaths(pattern) ==
    LET SplitTerminator(t) ==
            LET pieces == Split(t, "/")
            IN  IF pieces /= <<>> /\ Last(pieces) = <<>>
                THEN SubSeq(pieces, 1, Len(pieces) - 1)
                ELSE pieces
        rooted     == is_absolute(pattern)
        components == SplitTerminator(IF rooted THEN Tail(pattern) ELSE pattern)
        parsed     == [k \in 1..Len(components) |-> PatternTokens(components[k], 1)]
    IN  IF \E k \in 1..Len(parsed) : ~parsed[k].ok THEN [ok |-> FALSE, paths |-> {}]
        ELSE IF components = <<>> THEN [ok |-> TRUE, paths |-> {}]
        ELSE [ok |-> TRUE,
              paths |-> GlobFill([k \in 1..Len(parsed) |-> parsed[k].tokens], 1,
                                 IF rooted THEN <<"/">> ELSE <<".">>,
                                 pattern[Len(pattern)] = "/")]

\* The components of a path as the order of PathBuf sees them: the root,
\* then "." (only as the first component), ".." and names; a "." after the
\* first component and an empty piece are no components.
PathComponents(path) ==
    LET pieces == Split(path, "/")
    IN  (IF is_absolute(path) THEN << <<"/">> >> ELSE <<>>)
        \o SelectSeq([k \in 1..Len(pieces) |->
                         IF pieces[k] = <<".">> /\ (k > 1 \/ is_absolute(path))
                         THEN <<>> ELSE pieces[k]],
                     LAMBDA c : c /= <<>>)

\* a < b for two lists of components; the rank of a component is
\* RootDir < CurDir < ParentDir < Normal
RECURSIVE ComponentsLess(_, _)
ComponentsLess(a, b) ==
    LET ComponentRank(c) ==
            IF c = <<"/">> THEN 0
            ELSE IF c = <<".">> THEN 1
            ELSE IF c = <<".", ".">> THEN 2
            ELSE 3
    IN
    IF b = <<>> THEN FALSE
    ELSE IF a = <<>> THEN TRUE
    ELSE IF Head(a) = Head(b) THEN ComponentsLess(Tail(a), Tail(b))
    ELSE IF ComponentRank(Head(a)) /= ComponentRank(Head(b))
         THEN ComponentRank(Head(a)) < ComponentRank(Head(b))
    ELSE TextLess(Head(a), Head(b))

\* files.sort() on a set of paths that differ in their components
RECURSIVE SortPathTexts(_)
SortPathTexts(S) ==
    IF S = {} THEN <<>>
    ELSE LET m == CHOOSE x \in S : \A y \in S \ {x} :
                      ~ComponentsLess(PathComponents(y), PathComponents(x))
         IN  <<m>> \o SortPathTexts(S \ {m})

(***************************************************************************)
(* Directive Expander: expand_placeholders, expand_file_path,              *)
(* expand_dir_tree.  A result is [ok, text].                               *)
(***************************************************************************)
Ok(t) == [ok |-> TRUE, text |-> t]
Err == [ok |-> FALSE, text |-> <<>>]

\* writeln!(&mut output, "Contents of {}:\n```\n{}\n```\n", path, content)
FileBlock(path, content) ==
    <<"C","o","n","t","e","n","t","s"," ","o","f"," ">> \o path
        \o <<":",NL,BQ,BQ,BQ,NL>> \o content \o <<NL,BQ,BQ,BQ,NL,NL>>

\* The loop that reads each file of a sorted list and writes its block; a
\* file that cannot be read fails the whole expansion.
RECURSIVE FileBlocks(_, _)
FileBlocks(paths, k) ==
    IF k > Len(paths) THEN Ok(<<>>)
    ELSE LET r == read_to_string(paths[k])
         IN  IF ~r.ok THEN Err
             ELSE LET rest == FileBlocks(paths, k + 1)
                  IN  IF ~rest.ok THEN Err
                      ELSE Ok(FileBlock(paths[k], r.text) \o rest.text)

\* The path texts of a sorted sequence of relative paths under a prefix.
PathTexts(prefix, rels) == [k \in 1..Len(rels) |-> JoinPath(prefix, rels[k])]

expand_file_path(path_str) ==
    IF Contains(path_str, <<"*">>) \/ Contains(path_str, <<"?">>)
    THEN \* Glob
         Bind(GlobPaths(path_str), LAMBDA g :
             IF ~g.ok THEN Err
             ELSE LET files == {p \in g.paths : path_is_file(p)}
                  IN  IF files = {} THEN Err
                      ELSE FileBlocks(SortPathTexts(files), 1))
    ELSE IF path_is_dir(path_str)
    THEN \* Directory recurse
         LET entries == {r \in WalkDirEntries(path_str) :
                            FsNode(Resolve(path_str).path \o r).kind
                                \in {"file", "unreadable"}}
         IN  IF entries = {} THEN Err
             ELSE FileBlocks(PathTexts(path_str, SortPaths(entries)), 1)
    ELSE \* Single file
         IF ~path_exists(path_str) THEN Err
         ELSE IF ~path_is_file(path_str) THEN Err
         ELSE LET r == read_to_string(path_str)
              IN  IF ~r.ok THEN Err ELSE Ok(FileBlock(path_str, r.text))

\* "  ".repeat(n)
RECURSIVE Indent(_)
Indent(n) == IF n <= 0 THEN <<>> ELSE <<" ", " ">> \o Indent(n - 1)

\* The listing lines of expand_dir_tree for sorted entries.
RECURSIVE TreeLines(_, _, _)
TreeLines(root, rels, k) ==
    IF k > Len(rels) THEN <<>>
    ELSE LET rel == rels[k]
             isdir == FsNode(root \o rel).kind = "dir"
         IN  Indent(Len(rel) - 1) \o JoinNames(rel)
                \o (IF isdir THEN <<"/">> ELSE <<>>) \o <<NL>>
                \o TreeLines(root, rels, k + 1)

expand_dir_tree(path_str) ==
    IF ~path_exists(path_str) THEN Err
    ELSE IF ~path_is_dir(path_str) THEN Err
    ELSE LET entries == WalkDirEntries(path_str)
             head == <<"C","o","n","t","e","n","t","s"," ","o","f"," ",
                       "d","i","r","e","c","t","o","r","y"," ">> \o path_str
                        \o <<":",NL,BQ,BQ,BQ,NL>>
             body == IF entries = {}
                     THEN <<"(","e","m","p","t","y"," ","d","i","r","e","c","t","o","r","y",")",NL>>
                     ELSE TreeLines(Resolve(path_str).path, SortPaths(entries), 1)
         IN  Ok(head \o body \o <<BQ,BQ,BQ,NL>>)

\* A placeholder whose expansion fails is left out of the result: a faulty
\* variant.
ExpandOneDropping(text, m) ==
    LET r == IF m.kind = "f" THEN expand_file_path(m.cap) ELSE expand_dir_tree(m.cap)
    IN  IF r.ok THEN r.text ELSE <<>>

\* One placeholder: its expansion, or the placeholder itself when the
\* expansion fails.
ExpandOne(text, m) ==
    LET r == IF m.kind = "f" THEN expand_file_path(m.cap) ELSE expand_dir_tree(m.cap)
    IN  IF r.ok THEN r.text ELSE SubSeq(text, m.start, m.end - 1)

\* The loop over the matches: the text between the matches is copied.
RECURSIVE ExpandFrom(_, _, _, _)
ExpandFrom(text, ms, k, last_end) ==
    IF k > Len(ms) THEN SubSeq(text, last_end, Len(text))
    ELSE SubSeq(text, last_end, ms[k].start - 1) \o ExpandOne(text, ms[k])
            \o ExpandFrom(text, ms, k + 1, ms[k].end)

expand_placeholders(text) ==
    Bind(captures_iter("fd", text), LAMBDA ms : ExpandFrom(text, ms, 1, 1))

\* The paths expand_placeholders hands to the filesystem for a text.
PlaceholderPaths(text) ==
    LET ms == captures_iter("fd", text) IN {ms[k].cap : k \in 1..Len(ms)}

\* for msg in messages.iter_mut() { if msg.role == "user" { expand } }
ExpandUserMessages(messages) ==
    [i \in 1..Len(messages) |->
        IF messages[i].role = "user"
        THEN [messages[i] EXCEPT !.content = expand_placeholders(@)]
        ELSE messages[i]]

(***************************************************************************)
(* Request Orchestrator: the pure parts of process_chat_file.              *)
(***************************************************************************)
\* The eligibility test without the test of the role: a faulty variant.
NothingToSendAnyRole(messages) ==
    \/ messages = <<>>
    \/ Trim(messages[Len(messages)].content) = <<>>

\* messages.is_empty() || last.role != "user" || last.content.trim().is_empty()
NothingToSend(messages) ==
    \/ messages = <<>>
    \/ messages[Len(messages)].role /= "user"
    \/ Trim(messages[Len(messages)].content) = <<>>

\* One outer iteration up to the inner loop, for the content read from the
\* file: parse, resolve and strip @t and @p, expand, prepend the system
\* message.
Prepare(content, default_level, default_temperature, auto_request_files) ==
    Bind(parse_chat_messages(content), LAMBDA messages :
    Bind(StripT(messages, 1, None), LAMBDA t :
    Bind(StripP(t.messages, 1, NoTemp), LAMBDA p :
    Bind(ExpandUserMessages(p.messages), LAMBDA expanded :
        [ nothing  |-> NothingToSend(messages),
          level    |-> ResolveLevel(t.value, default_level),
          capped   |-> t.value /= None /\ t.value > MAX_LEVEL,
          temperature |-> ResolveTemperature(p.value, default_temperature),
          has_temperature |-> p.value /= NoTemp,
          reads    |-> UNION {PlaceholderPaths(p.messages[i].content) :
                                i \in {j \in 1..Len(p.messages) : p.messages[j].role = "user"}},
          api_messages |->
              IF auto_request_files
              THEN <<Message("system", SYSTEM_INSTRUCTIONS)>> \o expanded
              ELSE expanded ]))))

\* ChatRequest { messages, temperature, max_tokens }
ChatRequest(messages, temperature, level) ==
    [messages |-> messages, temperature |-> temperature, max_tokens |-> parse_level(level)]

\* The text after the request marker, when the trimmed reply starts with it.
RequestRest(content) ==
    LET trimmed == Trim(content)
    IN  Trim(SubSeq(trimmed, Len(REQUEST_PREFIX) + 1, Len(trimmed)))

\* trimmed.starts_with("GROK REQUESTS FILES:") && !rest.is_empty()
\*   && trimmed == format!("GROK REQUESTS FILES: {}", rest)
HasRequestForm(content) ==
    LET trimmed == Trim(content)
        rest    == RequestRest(content)
    IN  /\ StartsWith(trimmed, REQUEST_PREFIX)
        /\ rest /= <<>>
        /\ trimmed = REQUEST_PREFIX \o <<" ">> \o rest

\* rest.split(',').map(trim).filter(non-empty)
RequestedPaths(rest) ==
    LET pieces == Split(rest, ",")
    IN  SelectSeq([k \in 1..Len(pieces) |-> Trim(pieces[k])], LAMBDA x : x /= <<>>)

\* path.is_absolute() || p.starts_with("..") || p.contains("..")
IsTraversal(p) ==
    is_absolute(p) \/ StartsWith(p, <<".", ".">>) \/ Contains(p, <<".", ".">>)

\* Ok(canon) if canon.starts_with(&cwd)
CanonInsideCwd(p) ==
    canonicalize_in_cwd(p).ok /\ IsPrefix(CWD, canonicalize_in_cwd(p).path)

\* The validation loop without the break and without all_valid = false: a
\* faulty variant that keeps the valid paths of a list with an invalid one.
RECURSIVE ValidatePathsSkipping(_, _, _)
ValidatePathsSkipping(paths, k, valid_paths) ==
    IF k > Len(paths) THEN [all_valid |-> TRUE, valid_paths |-> valid_paths]
    ELSE IF ~IsTraversal(paths[k]) /\ CanonInsideCwd(paths[k])
         THEN ValidatePathsSkipping(paths, k + 1, Append(valid_paths, paths[k]))
    ELSE ValidatePathsSkipping(paths, k + 1, valid_paths)

\* The validation loop: it stops at the first path that fails.
RECURSIVE ValidatePaths(_, _, _)
ValidatePaths(paths, k, valid_paths) ==
    IF k > Len(paths) THEN [all_valid |-> TRUE, valid_paths |-> valid_paths]
    ELSE IF IsTraversal(paths[k])
         THEN [all_valid |-> FALSE, valid_paths |-> valid_paths]
    ELSE IF CanonInsideCwd(paths[k])
         THEN ValidatePaths(paths, k + 1, Append(valid_paths, paths[k]))
    ELSE [all_valid |-> FALSE, valid_paths |-> valid_paths]

\* The directives written last path first: a faulty variant.
RECURSIVE ArtifactLinesReversed(_)
ArtifactLinesReversed(valid_paths) ==
    IF valid_paths = <<>> THEN <<>>
    ELSE ArtifactLinesReversed(Tail(valid_paths)) \o <<"@", "f", ":">> \o Head(valid_paths) \o <<NL>>

\* writeln!(file, "@f:{}", vp) for every valid path
RECURSIVE ArtifactLines(_)
ArtifactLines(valid_paths) ==
    IF valid_paths = <<>> THEN <<>>
    ELSE <<"@", "f", ":">> \o Head(valid_paths) \o <<NL>> \o ArtifactLines(Tail(valid_paths))

\* What the file-request branch appends to the file.
ArtifactText(valid_paths) == ARTIFACT_HEADER \o ArtifactLines(valid_paths)

\* The file-request test made whatever the flag says: a faulty variant.
FileRequestPathsAnyFlag(content, auto_request_files) ==
    IF HasRequestForm(content)
    THEN LET v == ValidatePaths(RequestedPaths(RequestRest(content)), 1, <<>>)
         IN  IF v.all_valid /\ v.valid_paths /= <<>> THEN v.valid_paths ELSE <<>>
    ELSE <<>>

\* The paths of the artifact to append for a reply, or <<>> when the reply is
\* not handled as a file request (is_file_request stays false).
FileRequestPaths(content, auto_request_files) ==
    IF auto_request_files /\ HasRequestForm(content)
    THEN LET v == ValidatePaths(RequestedPaths(RequestRest(content)), 1, <<>>)
         IN  IF v.all_valid /\ v.valid_paths /= <<>> THEN v.valid_paths ELSE <<>>
    ELSE <<>>

\* finish_reason is "max_tokens" or "length"; "null" is a missing reason.
is_truncated(finish_reason) == finish_reason \in {"max_tokens", "length"}

\* The escalation test with <= for <: a faulty variant that goes past MAX_LEVEL.
ShouldEscalatePastMax(auto_increase_max_tokens, finish_reason, current_level) ==
    auto_increase_max_tokens /\ is_truncated(finish_reason) /\ current_level <= MAX_LEVEL

\* auto_increase_max_tokens && is_truncated && current_level < MAX_LEVEL
ShouldEscalate(auto_increase_max_tokens, finish_reason, current_level) ==
    auto_increase_max_tokens /\ is_truncated(finish_reason) /\ current_level < MAX_LEVEL

\* An escalation that restarts from MAX_LEVEL: a faulty variant.
EscalateToMax(current_level) == MAX_LEVEL

\* current_level += 1
Escalate(current_level) == current_level + 1

\* The final text without the newline before the assistant marker and
\* without the newline writeln! adds: a faulty variant.
FinalTextBare(assistant_content) ==
    GROK_RESPONSE_MARKER \o <<":", NL>> \o assistant_content
        \o <<NL, NL>> \o USER_PROMPT_MARKER \o <<":", NL>>

\* writeln!(file, "\n{}:\n{}\n\n{}:\n", GROK_RESPONSE_MARKER, content, USER_PROMPT_MARKER)
FinalText(assistant_content) ==
    <<NL>> \o GROK_RESPONSE_MARKER \o <<":", NL>> \o assistant_content
        \o <<NL, NL>> \o USER_PROMPT_MARKER \o <<":", NL, NL>>

\* The warning printed after the final append.
TruncationWarning(finish_reason, current_level) == is_truncated(finish_reason)

(***************************************************************************)
(* Inputs of the model.                                                    *)
(***************************************************************************)
\* Requests sent over the whole run.
MaxRequests == 3
\* Saves of the file by the user.
MaxEdits == 1

\* args.temperature, default "1.0"
DefaultTemperature == ParseF32(<<"1", ".", "0">>)
\* args.max_tokens: a level get_level_from_str accepts
DefaultLevels == {3}

\* The chat file at startup: "USER PROMPT:\nHello"; "USER PROMPT:\n\n" as main
\* creates it; a transcript that ends with an answer; a prompt with overrides
\* and a file directive, "@t:L7 @p:0.5 @f:a Hi" (a level above MAX_LEVEL).
InitFiles == {
    <<"U","S","E","R"," ","P","R","O","M","P","T",":",NL,"H","e","l","l","o">>,
    <<"U","S","E","R"," ","P","R","O","M","P","T",":",NL,NL>>,
    <<"U","S","E","R"," ","P","R","O","M","P","T",":",NL,"H","i",NL,NL,
      "G","R","O","K"," ","R","E","S","P","O","N","S","E",":",NL,"Y","o",NL>>,
    <<"U","S","E","R"," ","P","R","O","M","P","T",":",NL,
      "@","t",":","L","7"," ","@","p",":","0",".","5"," ","@","f",":","a"," ","H","i",NL>>
}

\* What the user appends when saving: nothing (a save without a change), or
\* a prompt "Q\n".
UserTexts == { <<>>, <<"Q", NL>> }

\* choices[0].message.content of a reply: "Hi there"; file requests for
\* "a, d/f" (valid), "a, ../e" (a traversal after a valid path), "a, o" (a
\* link out of the project after a valid path); and an answer with a line
\* equal to the user marker, "x\nUSER PROMPT:\n@f:s".
Replies == {
    <<"H","i"," ","t","h","e","r","e">>,
    REQUEST_PREFIX \o <<" ","a",","," ","d","/","f">>,
    REQUEST_PREFIX \o <<" ","a",","," ",".",".","/","e">>,
    REQUEST_PREFIX \o <<" ","a",","," ","o">>,
    <<"x",NL,"U","S","E","R"," ","P","R","O","M","P","T",":",NL,"@","f",":","s">>
}

\* choices[0].finish_reason ("null": absent)
FinishReasons == {"stop", "length", "max_tokens", "null"}

(***************************************************************************)
(* State.                                                                  *)
(***************************************************************************)
VARIABLES
    \* configuration and environment, fixed at startup
    auto_request_files,       \* args.auto_request_files
    auto_increase_max_tokens, \* args.auto_increase_max_tokens
    default_level,            \* get_level_from_str(&args.max_tokens)
    api_key,                  \* whether XAI_API_KEY is set
    \* the chat file
    file,                     \* its content
    mtime,                    \* its modification time
    \* main
    mpc,                      \* "startup", "startup_call", "poll", "loop_call", "panicked"
    last_mtime,
    current_mtime,
    \* process_chat_file
    ppc,                      \* "idle", "outer", "inner", "await", "chime", "warning",
                              \* "returned"
    api_messages,
    local_temperature,
    current_level,
    result,                   \* "none", "ok", "err": what the call returned
    \* what the current call of process_chat_file did, for the properties
    start_file,               \* the file when the call started
    requests,                 \* the requests sent, in order
    outcomes,                 \* how each request ended, in order
    appends,                  \* the texts appended to the file, in order
    sounds,                   \* the sounds played, in order
    console,                  \* the warnings printed
    reads,                    \* the paths handed to the expander
    last_reply,               \* the latest decoded reply [content, truncated]
    \* bounds
    nreq,                     \* requests sent over the run
    nedits                    \* saves by the user

config == <<auto_request_files, auto_increase_max_tokens, default_level, api_key>>
mainv  == <<mpc, last_mtime, current_mtime>>
locals == <<api_messages, local_temperature, current_level>>
trace  == <<start_file, requests, outcomes, appends, sounds, console, reads, last_reply>>
vars   == <<config, file, mtime, mainv, ppc, locals, result, trace, nreq, nedits>>

NoReply == [content |-> <<>>, truncated |-> FALSE]

Init ==
    /\ auto_request_files \in BOOLEAN
    /\ auto_increase_max_tokens \in BOOLEAN
    /\ default_level \in DefaultLevels
    /\ api_key \in BOOLEAN
    /\ file \in InitFiles
    /\ mtime = 0
    /\ mpc = "startup"
    /\ last_mtime = 0
    /\ current_mtime = 0
    /\ ppc = "idle"
    /\ api_messages = <<>>
    /\ local_temperature = DefaultTemperature
    /\ current_level = default_level
    /\ result = "none"
    /\ start_file = file
    /\ requests = <<>>
    /\ outcomes = <<>>
    /\ appends = <<>>
    /\ sounds = <<>>
    /\ console = {}
    /\ reads = {}
    /\ last_reply = NoReply
    /\ nreq = 0
    /\ nedits = 0

(***************************************************************************)
(* process_chat_file.                                                      *)
(***************************************************************************)
\* The call: the debounce sleep, then the outer loop.
EnterProcess ==
    /\ ppc' = "outer"
    /\ result' = "none"
    /\ start_file' = file
    /\ requests' = <<>>
    /\ outcomes' = <<>>
    /\ appends' = <<>>
    /\ sounds' = <<>>
    /\ console' = {}
    /\ reads' = {}
    /\ last_reply' = NoReply
    /\ UNCHANGED <<config, file, mtime, locals, nreq, nedits>>

\* A lookup of XAI_API_KEY that never fails: a faulty variant.
ApiKeyAlwaysFound(key) == FALSE

\* env::var("XAI_API_KEY") is an error when the variable is not set.
ApiKeyNotFound(key) == ~key

\* return Ok(()) / return Err(..)
Return(r) == ppc' = "returned" /\ result' = r

\* The outer iteration with the level kept from the inner loop before it
\* when that is higher than the resolved one: a faulty variant.
OuterIterationKeepingLevel ==
    /\ ppc = "outer"
    /\ \E prep \in {Prepare(file, default_level, DefaultTemperature, auto_request_files)} :
           IF prep.nothing
           THEN /\ Return("ok")
                /\ console' = console \cup {"no_prompt"}
                /\ UNCHANGED <<locals, reads, outcomes>>
           ELSE /\ reads' = reads \cup prep.reads
                /\ console' = console \cup (IF prep.capped THEN {"level_capped"} ELSE {})
                                      \cup (IF prep.has_temperature
                                               /\ TempOutOfRange(prep.temperature)
                                            THEN {"temperature_range"} ELSE {})
                /\ IF ApiKeyNotFound(api_key)
                   THEN /\ Return("err")
                        /\ outcomes' = Append(outcomes, "no_key")
                        /\ UNCHANGED locals
                   ELSE /\ ppc' = "inner"
                        /\ api_messages' = prep.api_messages
                        /\ current_level' = IF outcomes /= <<>> /\ current_level > prep.level
                                           THEN current_level ELSE prep.level
                        /\ local_temperature' = prep.temperature
                        /\ UNCHANGED <<result, outcomes>>
    /\ UNCHANGED <<config, file, mtime, mainv, start_file, requests, appends, sounds,
                   last_reply, nreq, nedits>>

\* The head of the outer loop: read the file, parse, return if there is no
\* complete user prompt, resolve the overrides, expand, read the API key.
OuterIteration ==
    /\ ppc = "outer"
    /\ \E prep \in {Prepare(file, default_level, DefaultTemperature, auto_request_files)} :
           IF prep.nothing
           THEN /\ Return("ok")
                /\ console' = console \cup {"no_prompt"}
                /\ UNCHANGED <<locals, reads, outcomes>>
           ELSE /\ reads' = reads \cup prep.reads
                /\ console' = console \cup (IF prep.capped THEN {"level_capped"} ELSE {})
                                      \cup (IF prep.has_temperature
                                               /\ TempOutOfRange(prep.temperature)
                                            THEN {"temperature_range"} ELSE {})
                /\ IF ApiKeyNotFound(api_key)
                   THEN /\ Return("err")
                        /\ outcomes' = Append(outcomes, "no_key")
                        /\ UNCHANGED locals
                   ELSE /\ ppc' = "inner"
                        /\ api_messages' = prep.api_messages
                        /\ current_level' = prep.level
                        /\ local_temperature' = prep.temperature
                        /\ UNCHANGED <<result, outcomes>>
    /\ UNCHANGED <<config, file, mtime, mainv, start_file, requests, appends, sounds,
                   last_reply, nreq, nedits>>

\* The head of the inner loop: build the request and send it.
SendRequest ==
    /\ ppc = "inner"
    /\ nreq < MaxRequests
    /\ ppc' = "await"
    /\ requests' = Append(requests, ChatRequest(api_messages, local_temperature, current_level))
    /\ nreq' = nreq + 1
    /\ UNCHANGED <<config, file, mtime, mainv, locals, result, start_file, outcomes,
                   appends, sounds, console, reads, last_reply, nedits>>

\* A transport failure after which the inner loop sends again, without the
\* warning sound: a faulty variant.
RecvTransportErrorRetried ==
    /\ ppc = "await"
    /\ outcomes' = Append(outcomes, "transport")
    /\ ppc' = "inner"
    /\ UNCHANGED <<config, file, mtime, mainv, locals, result, start_file, requests,
                   appends, sounds, console, reads, last_reply, nreq, nedits>>

\* Err(e): the request failed in transport; the warning sound starts to play.
RecvTransportError ==
    /\ ppc = "await"
    /\ sounds' = Append(sounds, "warning")
    /\ outcomes' = Append(outcomes, "transport")
    /\ ppc' = "warning"
    /\ UNCHANGED <<config, file, mtime, mainv, locals, result, start_file, requests,
                   appends, console, reads, last_reply, nreq, nedits>>

\* A non-success status whose error body is written to the file: a faulty
\* variant.
RecvNonSuccessWritten ==
    /\ ppc = "await"
    /\ sounds' = Append(sounds, "warning")
    /\ outcomes' = Append(outcomes, "status")
    /\ file' = file \o <<"e", "r", "r", "o", "r", NL>>
    /\ mtime' = mtime + 1
    /\ ppc' = "warning"
    /\ UNCHANGED <<config, mainv, locals, result, start_file, requests, appends, console,
                   reads, last_reply, nreq, nedits>>

\* Ok(resp) with a status that is not a success; the warning sound starts to
\* play.
RecvNonSuccess ==
    /\ ppc = "await"
    /\ sounds' = Append(sounds, "warning")
    /\ outcomes' = Append(outcomes, "status")
    /\ ppc' = "warning"
    /\ UNCHANGED <<config, file, mtime, mainv, locals, result, start_file, requests,
                   appends, console, reads, last_reply, nreq, nedits>>

\* Ok(resp) with a success status whose body resp.json() cannot decode: the
\* error leaves through the ? operator.
RecvMalformedBody ==
    /\ ppc = "await"
    /\ outcomes' = Append(outcomes, "malformed")
    /\ Return("err")
    /\ UNCHANGED <<config, file, mtime, mainv, locals, start_file, requests, appends,
                   sounds, console, reads, last_reply, nreq, nedits>>

\* A decoded body whose choices list is empty: chat_resp.choices[0] panics,
\* and the panic ends the process.
RecvEmptyChoices ==
    /\ ppc = "await"
    /\ outcomes' = Append(outcomes, "empty_choices")
    /\ ppc' = "panicked"
    /\ mpc' = "panicked"
    /\ UNCHANGED <<config, file, mtime, last_mtime, current_mtime, locals, result,
                   start_file, requests, appends, sounds, console, reads, last_reply,
                   nreq, nedits>>

\* A decoded reply that is a valid file request: the artifact is appended and
\* the outer loop runs again.
RecvFileRequest(content, finish_reason, valid_paths) ==
    /\ ppc = "await"
    /\ valid_paths /= <<>>
    /\ \E text \in {ArtifactText(valid_paths)} :
           /\ file' = file \o text
           /\ appends' = Append(appends, [kind |-> "artifact", text |-> text])
    /\ mtime' = mtime + 1
    /\ last_reply' = [content |-> content, truncated |-> is_truncated(finish_reason)]
    /\ outcomes' = Append(outcomes, "file_request")
    /\ ppc' = "outer"
    /\ UNCHANGED <<config, mainv, locals, result, start_file, requests, sounds, console,
                   reads, nreq, nedits>>

\* The truncation test made before the file-request test, so that a truncated
\* file request escalates: a faulty variant.
RecvTruncatedFirst(content, finish_reason, valid_paths) ==
    /\ ppc = "await"
    /\ ShouldEscalate(auto_increase_max_tokens, finish_reason, current_level)
    /\ current_level' = Escalate(current_level)
    /\ last_reply' = [content |-> content, truncated |-> is_truncated(finish_reason)]
    /\ outcomes' = Append(outcomes, "escalate")
    /\ ppc' = "inner"
    /\ UNCHANGED <<config, file, mtime, mainv, api_messages, local_temperature, result,
                   start_file, requests, appends, sounds, console, reads, nreq, nedits>>

\* A truncated reply below the maximum level, with escalation enabled: the
\* level goes up by one and the inner loop continues.
RecvTruncated(content, finish_reason, valid_paths) ==
    /\ ppc = "await"
    /\ valid_paths = <<>>
    /\ ShouldEscalate(auto_increase_max_tokens, finish_reason, current_level)
    /\ current_level' = Escalate(current_level)
    /\ last_reply' = [content |-> content, truncated |-> is_truncated(finish_reason)]
    /\ outcomes' = Append(outcomes, "escalate")
    /\ ppc' = "inner"
    /\ UNCHANGED <<config, file, mtime, mainv, api_messages, local_temperature, result,
                   start_file, requests, appends, sounds, console, reads, nreq, nedits>>

\* A final response written by rewriting the file from the content the turn
\* started with and what the turn appended since: a faulty variant.
RecvFinalRewritten(content, finish_reason, valid_paths) ==
    /\ ppc = "await"
    /\ valid_paths = <<>>
    /\ ~ShouldEscalate(auto_increase_max_tokens, finish_reason, current_level)
    /\ file' = ConcatAll(<<start_file>> \o [i \in 1..Len(appends) |-> appends[i].text])
                   \o FinalText(content)
    /\ appends' = Append(appends, [kind |-> "final", text |-> FinalText(content)])
    /\ mtime' = mtime + 1
    /\ console' = console \cup (IF TruncationWarning(finish_reason, current_level)
                                THEN {"truncated_at_max_level"} ELSE {})
    /\ sounds' = Append(sounds, "chime")
    /\ last_reply' = [content |-> content, truncated |-> is_truncated(finish_reason)]
    /\ outcomes' = Append(outcomes, "final")
    /\ ppc' = "chime"
    /\ UNCHANGED <<config, mainv, locals, result, start_file, requests, reads, nreq,
                   nedits>>

\* Any other decoded reply is the final response: it is appended, the warning
\* is printed if it is truncated, and the chime starts to play.
RecvFinal(content, finish_reason, valid_paths) ==
    /\ ppc = "await"
    /\ valid_paths = <<>>
    /\ ~ShouldEscalate(auto_increase_max_tokens, finish_reason, current_level)
    /\ file' = file \o FinalText(content)
    /\ appends' = Append(appends, [kind |-> "final", text |-> FinalText(content)])
    /\ mtime' = mtime + 1
    /\ console' = console \cup (IF TruncationWarning(finish_reason, current_level)
                                THEN {"truncated_at_max_level"} ELSE {})
    /\ sounds' = Append(sounds, "chime")
    /\ last_reply' = [content |-> content, truncated |-> is_truncated(finish_reason)]
    /\ outcomes' = Append(outcomes, "final")
    /\ ppc' = "chime"
    /\ UNCHANGED <<config, mainv, locals, result, start_file, requests, reads, nreq,
                   nedits>>

\* play_chime().await is over: the inner loop and the outer loop are left,
\* the call returns Ok(()).
ChimePlayed ==
    /\ ppc = "chime"
    /\ Return("ok")
    /\ UNCHANGED <<config, file, mtime, mainv, locals, trace, nreq, nedits>>

\* play_warning().await is over: the call returns the error.
WarningPlayed ==
    /\ ppc = "warning"
    /\ Return("err")
    /\ UNCHANGED <<config, file, mtime, mainv, locals, trace, nreq, nedits>>

\* A decoded body with a first choice: its content, its finish_reason, and
\* the valid paths of the file request it makes (<<>> when it makes none).
RecvChoice ==
    /\ ppc = "await"
    /\ \E content \in Replies :
       \E valid_paths \in {FileRequestPaths(content, auto_request_files)} :
       \E finish_reason \in FinishReasons :
           \/ RecvFileRequest(content, finish_reason, valid_paths)
           \/ RecvTruncated(content, finish_reason, valid_paths)
           \/ RecvFinal(content, finish_reason, valid_paths)

(***************************************************************************)
(* main: the startup pass and the polling loop; the user's saves.          *)
(***************************************************************************)
\* The initial process_chat_file call on startup.
StartupCall ==
    /\ mpc = "startup"
    /\ mpc' = "startup_call"
    /\ EnterProcess
    /\ UNCHANGED <<last_mtime, current_mtime>>

\* After the startup call, whatever it returned: last_mtime is read.
StartupReturn ==
    /\ mpc = "startup_call"
    /\ ppc = "returned"
    /\ last_mtime' = mtime
    /\ mpc' = "poll"
    /\ ppc' = "idle"
    /\ console' = console \cup (IF result = "err" THEN {"processing_error"} ELSE {})
    /\ UNCHANGED <<config, file, mtime, current_mtime, locals, result, start_file,
                   requests, outcomes, appends, sounds, reads, last_reply, nreq, nedits>>

\* A poll that finds current_mtime > last_mtime calls process_chat_file.
PollChanged ==
    /\ mpc = "poll"
    /\ mtime > last_mtime
    /\ current_mtime' = mtime
    /\ mpc' = "loop_call"
    /\ EnterProcess
    /\ UNCHANGED last_mtime

\* After the call, whatever it returned: last_mtime = current_mtime.
PollReturn ==
    /\ mpc = "loop_call"
    /\ ppc = "returned"
    /\ last_mtime' = current_mtime
    /\ mpc' = "poll"
    /\ ppc' = "idle"
    /\ console' = console \cup (IF result = "err" THEN {"processing_error"} ELSE {})
    /\ UNCHANGED <<config, file, mtime, current_mtime, locals, result, start_file,
                   requests, outcomes, appends, sounds, reads, last_reply, nreq, nedits>>

\* The user saves the file while the tool waits for a change, or while the
\* chime of the answer plays.
UserEdit ==
    /\ mpc = "poll" \/ ppc = "chime"
    /\ nedits < MaxEdits
    /\ \E text \in UserTexts : file' = file \o text
    /\ mtime' = mtime + 1
    /\ nedits' = nedits + 1
    /\ UNCHANGED <<config, mainv, ppc, locals, result, trace, nreq>>

Next ==
    \/ StartupCall
    \/ OuterIteration
    \/ SendRequest
    \/ RecvTransportError
    \/ RecvNonSuccess
    \/ RecvMalformedBody
    \/ RecvEmptyChoices
    \/ RecvChoice
    \/ ChimePlayed
    \/ WarningPlayed
    \/ StartupReturn
    \/ PollChanged
    \/ PollReturn
    \/ UserEdit

Spec == Init /\ [][Next]_vars

\* An external editor saves the file while a turn is running: it writes its
\* buffer, the content the turn started with and what the user typed since,
\* over whatever the file holds.
EditorSave ==
    /\ ppc \in {"outer", "inner", "await", "chime", "warning"}
    /\ nedits < MaxEdits
    /\ \E text \in UserTexts : file' = start_file \o text
    /\ mtime' = mtime + 1
    /\ nedits' = nedits + 1
    /\ UNCHANGED <<config, mainv, ppc, locals, result, trace, nreq>>

\* The program with saves of the editor interleaved with the steps of a turn.
NextInterleaved == Next \/ EditorSave

SpecInterleaved == Init /\ [][NextInterleaved]_vars

(***************************************************************************)
(* Transcripts as input: the user writes the chat file piece by piece      *)
(* before the tool is started, and the startup pass parses it, resolves    *)
(* the overrides and expands it.                                           *)
(***************************************************************************)
\* Pieces written to the file.
MaxTokens == 4

\* What the user writes: a space, the marker lines, a line of text, level
\* directives (L1; L7, above MAX_LEVEL), temperature directives.
TranscriptTokens == {
    <<" ">>,
    USER_PROMPT_MARKER \o <<":", NL>>,
    GROK_RESPONSE_MARKER \o <<":", NL>>,
    <<"a", NL>>,
    <<"@","t",":","L","1",NL>>,
    <<"@","t",":","L","7",NL>>,
    <<"@","p",":","0",".","5",NL>>
}

InitTranscripts ==
    /\ auto_request_files = FALSE
    /\ auto_increase_max_tokens = FALSE
    /\ default_level \in DefaultLevels
    /\ api_key = TRUE
    /\ file = <<>>
    /\ mtime = 0
    /\ mpc = "startup"
    /\ last_mtime = 0
    /\ current_mtime = 0
    /\ ppc = "idle"
    /\ api_messages = <<>>
    /\ local_temperature = DefaultTemperature
    /\ current_level = default_level
    /\ result = "none"
    /\ start_file = <<>>
    /\ requests = <<>>
    /\ outcomes = <<>>
    /\ appends = <<>>
    /\ sounds = <<>>
    /\ console = {}
    /\ reads = {}
    /\ last_reply = NoReply
    /\ nreq = 0
    /\ nedits = 0

\* The user writes one more piece before the tool is started.
WriteTranscript ==
    /\ mpc = "startup"
    /\ mtime < MaxTokens
    /\ \E token \in TranscriptTokens : file' = file \o token
    /\ mtime' = mtime + 1
    /\ UNCHANGED <<config, mainv, ppc, locals, result, start_file, trace, nreq, nedits>>

\* The startup pass over the file the user wrote, up to the first request.
NextTranscripts ==
    \/ WriteTranscript
    \/ StartupCall
    \/ OuterIteration

SpecTranscripts == InitTranscripts /\ [][NextTranscripts]_vars

\* The same, with the request of the turn sent.
NextSentTranscripts == NextTranscripts \/ SendRequest

SpecSentTranscripts == InitTranscripts /\ [][NextSentTranscripts]_vars

(***************************************************************************)
(* Directives as input: the user writes a prompt of placeholders, one      *)
(* piece at a time, before the tool is started.                            *)
(***************************************************************************)
\* Pieces of the prompt.
MaxDirectives == 3

\* Each piece ends with a space: "@f:a" (a file), "@d:d" (a directory with
\* one file), "@f:m" (no such path), "@f:z*" (a glob without a match),
\* "@f:n" (an empty directory), "@d:a" (a file where a directory is
\* expected), "@f:u" (a file that cannot be read), and the word "x".
DirectiveTokens == {
    <<"@","f",":","a"," ">>,
    <<"@","d",":","d"," ">>,
    <<"@","f",":","m"," ">>,
    <<"@","f",":","z","*"," ">>,
    <<"@","f",":","n"," ">>,
    <<"@","d",":","a"," ">>,
    <<"@","f",":","u"," ">>,
    <<"x"," ">>
}

\* The user writes one more piece before the tool is started.
WriteDirective ==
    /\ mpc = "startup"
    /\ mtime < MaxDirectives
    /\ \E token \in DirectiveTokens : file' = file \o token
    /\ mtime' = mtime + 1
    /\ UNCHANGED <<config, mainv, ppc, locals, result, trace, nreq, nedits>>

\* The startup pass over the prompt, up to the first request sent.
NextDirectives ==
    \/ WriteDirective
    \/ StartupCall
    \/ OuterIteration
    \/ SendRequest

SpecDirectives == InitTranscripts /\ [][NextDirectives]_vars

(***************************************************************************)
(* Replies as input: the first reply of a turn is a text that starts with  *)
(* the request marker, continued piece by piece.                           *)
(***************************************************************************)
\* Pieces after the marker.
MaxReplyTokens == 4

\* " a" (a file), " d" (a directory), ",", a newline, "/*" (which makes the
\* glob " d/*"), "x".
ReplyTokens == { <<" ","a">>, <<" ","d">>, <<",">>, <<NL>>, <<"/","*">>, <<"x">> }

\* The texts of at most n pieces.
RECURSIVE TokenTexts(_)
TokenTexts(n) ==
    IF n = 0 THEN {<<>>}
    ELSE Bind(TokenTexts(n - 1), LAMBDA shorter :
             shorter \cup {t \o token : t \in shorter, token \in ReplyTokens})

BuiltReplies == {REQUEST_PREFIX \o t : t \in TokenTexts(MaxReplyTokens)}

\* The tool is started with file-request handling enabled on the chat file
\* "USER PROMPT:\nHello".
InitReplies ==
    /\ auto_request_files = TRUE
    /\ auto_increase_max_tokens = FALSE
    /\ default_level \in DefaultLevels
    /\ api_key = TRUE
    /\ file = <<"U","S","E","R"," ","P","R","O","M","P","T",":",NL,"H","e","l","l","o">>
    /\ mtime = 0
    /\ mpc = "startup"
    /\ last_mtime = 0
    /\ current_mtime = 0
    /\ ppc = "idle"
    /\ api_messages = <<>>
    /\ local_temperature = DefaultTemperature
    /\ current_level = default_level
    /\ result = "none"
    /\ start_file = file
    /\ requests = <<>>
    /\ outcomes = <<>>
    /\ appends = <<>>
    /\ sounds = <<>>
    /\ console = {}
    /\ reads = {}
    /\ last_reply = NoReply
    /\ nreq = 0
    /\ nedits = 0

\* The first reply of the turn, with finish_reason "stop": a file request
\* or the final response.
RecvBuiltReply ==
    /\ ppc = "await"
    /\ outcomes = <<>>
    /\ \E content \in BuiltReplies :
       \E valid_paths \in {FileRequestPaths(content, auto_request_files)} :
           \/ RecvFileRequest(content, "stop", valid_paths)
           \/ RecvFinal(content, "stop", valid_paths)

NextReplies ==
    \/ StartupCall
    \/ OuterIteration
    \/ SendRequest
    \/ RecvBuiltReply
    \/ ChimePlayed

SpecReplies == InitReplies /\ [][NextReplies]_vars

(***************************************************************************)
(* Transcripts that end in different ways, with file-request handling      *)
(* enabled: one turn, from the startup pass on.                            *)
(***************************************************************************)
\* "USER PROMPT:\nHello"; "USER PROMPT:\nHi\n"; the same followed by an
\* assistant marker with nothing after it, and by a user marker with nothing
\* after it.
ArtifactInitFiles == {
    <<"U","S","E","R"," ","P","R","O","M","P","T",":",NL,"H","e","l","l","o">>,
    <<"U","S","E","R"," ","P","R","O","M","P","T",":",NL,"H","i",NL>>,
    <<"U","S","E","R"," ","P","R","O","M","P","T",":",NL,"H","i",NL,"G","R","O","K"," ","R","E","S","P","O","N","S","E",":",NL>>,
    <<"U","S","E","R"," ","P","R","O","M","P","T",":",NL,"H","i",NL,"U","S","E","R"," ","P","R","O","M","P","T",":",NL>>
}

InitArtifacts ==
    /\ auto_request_files = TRUE
    /\ auto_increase_max_tokens \in BOOLEAN
    /\ default_level \in DefaultLevels
    /\ api_key = TRUE
    /\ file \in ArtifactInitFiles
    /\ mtime = 0
    /\ mpc = "startup"
    /\ last_mtime = 0
    /\ current_mtime = 0
    /\ ppc = "idle"
    /\ api_messages = <<>>
    /\ local_temperature = DefaultTemperature
    /\ current_level = default_level
    /\ result = "none"
    /\ start_file = file
    /\ requests = <<>>
    /\ outcomes = <<>>
    /\ appends = <<>>
    /\ sounds = <<>>
    /\ console = {}
    /\ reads = {}
    /\ last_reply = NoReply
    /\ nreq = 0
    /\ nedits = 0

NextArtifacts ==
    \/ StartupCall
    \/ OuterIteration
    \/ SendRequest
    \/ RecvChoice
    \/ ChimePlayed

SpecArtifacts == InitArtifacts /\ [][NextArtifacts]_vars

(***************************************************************************)
(* The tool's own append as a change of the file: the program started on   *)
(* the file main creates, the user saving prompts only while the tool      *)
(* polls, and the API also answering with an empty or a blank content.     *)
(***************************************************************************)
\* choices[0].message.content: "" and " "
BlankReplies == { <<>>, <<" ">> }

RecvBlankReply ==
    /\ ppc = "await"
    /\ \E content \in BlankReplies :
       \E valid_paths \in {FileRequestPaths(content, auto_request_files)} :
       \E finish_reason \in {"stop", "length"} :
           \/ RecvTruncated(content, finish_reason, valid_paths)
           \/ RecvFinal(content, finish_reason, valid_paths)

\* The user adds the prompt "Q\n" and saves while the tool waits for a change.
UserPromptSave ==
    /\ mpc = "poll"
    /\ nedits < MaxEdits
    /\ file' = file \o <<"Q", NL>>
    /\ mtime' = mtime + 1
    /\ nedits' = nedits + 1
    /\ UNCHANGED <<config, mainv, ppc, locals, result, trace, nreq>>

\* The file is "USER PROMPT:\n\n" as main writes it when it does not exist.
InitOwnAppend ==
    /\ Init
    /\ file = <<"U","S","E","R"," ","P","R","O","M","P","T",":",NL,NL>>
    /\ api_key = TRUE

NextOwnAppend ==
    \/ StartupCall
    \/ OuterIteration
    \/ SendRequest
    \/ RecvChoice
    \/ RecvBlankReply
    \/ ChimePlayed
    \/ StartupReturn
    \/ PollChanged
    \/ PollReturn
    \/ UserPromptSave

SpecOwnAppend == InitOwnAppend /\ [][NextOwnAppend]_vars

(***************************************************************************)
(* The watcher with saves of the user while a request is in flight: file   *)
(* requests are disabled, so that each call of process_chat_file reads the *)
(* chat file once, when it starts.                                         *)
(***************************************************************************)
\* The user adds the prompt "Q\n" and saves while the tool waits for the
\* API's answer or plays a sound.
SaveDuringRequest ==
    /\ ppc \in {"await", "chime", "warning"}
    /\ nedits < MaxEdits
    /\ file' = file \o <<"Q", NL>>
    /\ mtime' = mtime + 1
    /\ nedits' = nedits + 1
    /\ UNCHANGED <<config, mainv, ppc, locals, result, trace, nreq>>

\* A reply with a first choice, file requests being disabled.
RecvAnswer ==
    /\ ppc = "await"
    /\ \E content \in Replies :
       \E valid_paths \in {FileRequestPaths(content, auto_request_files)} :
       \E finish_reason \in FinishReasons :
           \/ RecvTruncated(content, finish_reason, valid_paths)
           \/ RecvFinal(content, finish_reason, valid_paths)

InitWatcher ==
    /\ Init
    /\ auto_request_files = FALSE
    /\ api_key = TRUE

NextWatcher ==
    \/ StartupCall
    \/ OuterIteration
    \/ SendRequest
    \/ RecvTransportError
    \/ RecvAnswer
    \/ ChimePlayed
    \/ WarningPlayed
    \/ StartupReturn
    \/ PollChanged
    \/ PollReturn
    \/ UserPromptSave
    \/ SaveDuringRequest

SpecWatcher == InitWatcher /\ [][NextWatcher]_vars


(***************************************************************************)
(* Properties.  A turn is one call of process_chat_file; start_file,       *)
(* requests, outcomes, appends, sounds, console, reads and last_reply      *)
(* describe the current turn.                                              *)
(***************************************************************************)
\* The texts the turn has appended, in one text.
AppendedText == ConcatAll([i \in 1..Len(appends) |-> appends[i].text])

NumArtifacts == Cardinality({i \in 1..Len(appends) : appends[i].kind = "artifact"})

NumFileRequests == Cardinality({i \in 1..Len(outcomes) : outcomes[i] = "file_request"})

\* The turn has returned an error.
TurnFailed == ppc = "returned" /\ result = "err"

\* The turn has failed, or plays the warning sound after which it fails.
TurnFailing == ppc = "warning" \/ TurnFailed

\* C1 as stated: when a turn ends in failure, the file is what it was when
\* the turn started.
C1_FailureLeavesFileUnchanged == TurnFailed => file = start_file

\* C1, amended: when a turn ends in failure, the file is what it was when the
\* turn started followed by the artifacts of the file-request rounds the turn
\* accepted before it failed, and by nothing else: no reply has been appended.
C1_FailureAppendsOnlyArtifacts ==
    TurnFailed =>
        /\ \A i \in 1..Len(appends) : appends[i].kind = "artifact"
        /\ NumArtifacts = NumFileRequests
        /\ file = start_file \o AppendedText

\* A turn that failed after a file-request round.
C1_Witness == TurnFailed /\ appends /= <<>> /\ Last(outcomes) \in {"transport", "status", "malformed"}

\* A path is relative, has no parent-directory segment and resolves to a
\* place inside the working directory.
C2_PathOk(p) ==
    LET names == Split(p, "/")
        canon == canonicalize_in_cwd(p)
    IN  /\ ~StartsWith(p, <<"/">>)
        /\ \A k \in 1..Len(names) : names[k] /= <<".", ".">>
        /\ canon.ok
        /\ IsPrefix(CWD, canon.path)

\* C2: with file-request handling enabled, for the latest reply when it is in
\* file-request form: if its artifact was appended, its path list is not
\* empty and every path is relative, without a parent-directory segment and
\* inside the working directory, and the artifact names exactly those paths;
\* if a path fails, the reply went to the truncation/terminal steps and no
\* artifact was appended for it (every artifact of the turn belongs to an
\* accepted file request).
C2_FileRequestValidation ==
    /\ NumArtifacts = NumFileRequests
    /\ (/\ auto_request_files
        /\ outcomes /= <<>>
        /\ Last(outcomes) \in {"file_request", "escalate", "final"}
        /\ HasRequestForm(last_reply.content))
       => LET paths == RequestedPaths(RequestRest(last_reply.content))
              ok    == paths /= <<>> /\ \A k \in 1..Len(paths) : C2_PathOk(paths[k])
          IN  /\ Last(outcomes) = "file_request"
                    => /\ ok
                       /\ Last(appends) = [kind |-> "artifact", text |-> ArtifactText(paths)]
              /\ ~ok => /\ Last(outcomes) \in {"escalate", "final"}
                        /\ Last(outcomes) = "final"
                              => Last(appends) = [kind |-> "final",
                                                  text |-> FinalText(last_reply.content)]

\* A reply "GROK REQUESTS FILES: a, ../e" was appended as an ordinary answer,
\* with no artifact in the turn.
C2_Witness ==
    /\ auto_request_files
    /\ outcomes = <<"final">>
    /\ last_reply.content = REQUEST_PREFIX \o <<" ","a",","," ",".",".","/","e">>
    /\ NumArtifacts = 0

\* A turn is in progress or has just returned to main.
InTurn == mpc \in {"startup_call", "loop_call"}

\* The paths of the directives the user wrote, and the paths of the file
\* requests the tool accepts and writes as artifacts.
UserDirectivePaths == UNION {PlaceholderPaths(t) : t \in InitFiles \cup UserTexts}
AcceptedRequestPaths ==
    UNION {{FileRequestPaths(r, TRUE)[k] : k \in 1..Len(FileRequestPaths(r, TRUE))} : r \in Replies}

\* C3: no directive written by the model in an answer causes a filesystem
\* read: every path handed to the expander comes from a directive the user
\* wrote or from the artifact of an accepted file request.
C3_AssistantTextNeverExpanded == reads \subseteq UserDirectivePaths \cup AcceptedRequestPaths

\* The last message is missing, has role assistant, or is empty once trimmed.
C4_Ineligible(messages) ==
    \/ messages = <<>>
    \/ Last(messages).role = "assistant"
    \/ Trim(Last(messages).content) = <<>>

\* C4: a pass over a transcript whose message list is empty or ends with an
\* assistant or empty message sends no request, leaves the file as it was and
\* returns Ok; a repeated pass starts from the same file, so it does the same.
C4_IneligibleTranscriptNoOp ==
    InTurn
        => \/ /\ requests = <<>>
              /\ appends = <<>>
              /\ file = start_file
              /\ ppc \in {"outer", "returned"}
              /\ ppc = "returned" => result = "ok"
           \/ ~C4_Ineligible(parse_chat_messages(start_file))

\* A second pass, after a save that changed nothing, over a transcript that
\* ends with an answer: it returned without a request.
C4_Witness ==
    /\ mpc = "loop_call" /\ ppc = "returned" /\ nedits = 1
    /\ parse_chat_messages(start_file) /= <<>>
    /\ Last(parse_chat_messages(start_file)).role = "assistant"
    /\ requests = <<>> /\ result = "ok"

\* C5: a request re-issued after an escalation has the messages and the
\* temperature of the request before it and twice its max_tokens (one level
\* more), and the step that escalates leaves the file as it is.
C5_EscalationFrame ==
    /\ [](\A i \in 1..Len(outcomes) :
            (outcomes[i] = "escalate" /\ i < Len(requests))
                => /\ requests[i + 1].messages = requests[i].messages
                   /\ requests[i + 1].temperature = requests[i].temperature
                   /\ requests[i + 1].max_tokens = 2 * requests[i].max_tokens)
    /\ [][(Len(outcomes') = Len(outcomes) + 1 /\ Last(outcomes') = "escalate")
            => (file' = file /\ mtime' = mtime /\ appends' = appends)]_vars

\* A request was re-issued after an escalation.
C5_Witness == Len(requests) >= 2 /\ outcomes[1] = "escalate"

\* The level of a request, from its max_tokens.
LevelOf(req) == CHOOSE l \in 0..(MAX_LEVEL + 2) : parse_level(l) = req.max_tokens

\* C6: with auto-escalation enabled and no file request in the turn, the
\* requests are at levels L, L+1, ... and never above 5; every reply but the
\* last escalated; an escalated reply was truncated; the final reply is
\* truncated only at level 5 (so the escalations are min(k, 5 - L) for k
\* truncated replies); and the one reply appended is the last one received.
C6_EscalationCountAndOrder ==
    (auto_increase_max_tokens /\ requests /= <<>> /\ NumFileRequests = 0)
        => LET L == LevelOf(requests[1])
               n == Len(outcomes)
           IN  /\ \A i \in 1..Len(requests) :
                      /\ L + i - 1 <= MAX_LEVEL
                      /\ requests[i].max_tokens = parse_level(L + i - 1)
               /\ \A i \in 1..(n - 1) : outcomes[i] = "escalate"
               /\ (n > 0 /\ outcomes[n] = "escalate") => (last_reply.truncated /\ appends = <<>>)
               /\ (n > 0 /\ outcomes[n] = "final")
                      => /\ last_reply.truncated => L + n - 1 = MAX_LEVEL
                         /\ appends = <<[kind |-> "final",
                                         text |-> FinalText(last_reply.content)]>>

\* Replies truncated, truncated, normal from level 3: two escalations, and
\* the third reply appended.
C6_Witness ==
    /\ auto_increase_max_tokens
    /\ outcomes = <<"escalate", "escalate", "final">>
    /\ ~last_reply.truncated
    /\ LevelOf(requests[1]) = 3 /\ LevelOf(requests[3]) = 5

\* C7: the warning "truncated even at max level" is printed only for a
\* truncated terminal reply at level MAX_LEVEL.
C7_WarningOnlyAtMaxLevel ==
    "truncated_at_max_level" \in console
        => (last_reply.truncated /\ current_level = MAX_LEVEL)

\* C8: when the latest request ended with a transport error or a non-success
\* status, the turn has returned an error, the warning sound was the last
\* sound played, no request followed, and the file holds nothing but what it
\* held at the start and the artifacts of earlier file-request rounds.
C8_TransportFailureTerminal ==
    (InTurn /\ outcomes /= <<>> /\ Last(outcomes) \in {"transport", "status"})
        => /\ TurnFailing
           /\ sounds /= <<>> /\ Last(sounds) = "warning"
           /\ Len(requests) = Len(outcomes)
           /\ \A i \in 1..Len(appends) : appends[i].kind = "artifact"
           /\ NumArtifacts = NumFileRequests
           /\ file = start_file \o AppendedText

\* A turn ended by a transport error or a non-success status.
C8_Witness ==
    /\ TurnFailed /\ outcomes /= <<>> /\ Last(outcomes) \in {"transport", "status"}
    /\ Last(sounds) = "warning"

\* C9: when the latest request ended with a body that cannot be decoded, the
\* turn has returned an error without a reply appended, and the warning
\* sound was played, as for a transport error.
C9_MalformedBodyLikeTransportFailure ==
    (InTurn /\ outcomes /= <<>> /\ Last(outcomes) = "malformed")
        => /\ TurnFailed
           /\ \A i \in 1..Len(appends) : appends[i].kind = "artifact"
           /\ sounds /= <<>> /\ Last(sounds) = "warning"

\* C10: after a turn whose last step was a transport failure, a non-success
\* status, a malformed body, a missing credential or an empty choice list,
\* the process is still running and the turn has returned an error.
C10_NoTurnErrorEndsProcess ==
    (outcomes /= <<>>
        /\ Last(outcomes) \in {"transport", "status", "malformed", "no_key", "empty_choices"})
        => /\ mpc /= "panicked"
           /\ InTurn => TurnFailing

\* C11: in a turn over an eligible transcript with the API credential absent,
\* no request is sent and nothing is appended: the file is as it was when the
\* turn started, and once the turn has returned, it has returned the error of
\* the missing credential, raised in the first outer iteration.
C11_MissingCredentialFailsBeforeRequest ==
    (InTurn /\ ~api_key /\ ~C4_Ineligible(parse_chat_messages(start_file)))
        => /\ requests = <<>>
           /\ appends = <<>>
           /\ file = start_file
           /\ ppc \in {"outer", "returned"}
           /\ ppc = "returned" => (result = "err" /\ outcomes = <<"no_key">>)

\* A turn over an eligible transcript that failed for the missing credential.
C11_Witness ==
    /\ InTurn /\ ~api_key /\ TurnFailed
    /\ ~C4_Ineligible(parse_chat_messages(start_file))
    /\ outcomes = <<"no_key">> /\ requests = <<>>

\* C12: every step of the tool that changes the file, also when saves of an
\* external editor come between the steps of the turn, is one append: the
\* content before the step is a prefix of the content after it, and what
\* follows that prefix is the text the step appended.
C12_EveryToolWriteIsAppend ==
    [][(file' /= file /\ nedits' = nedits)
          => /\ IsPrefix(file, file')
             /\ Len(appends') = Len(appends) + 1
             /\ file' = file \o Last(appends').text]_vars

\* A turn in which the editor saved text typed after the turn started, and
\* the tool then appended the final response after that text.
C12_Witness ==
    /\ ppc = "returned" /\ result = "ok" /\ Len(appends) = 1
    /\ \E text \in UserTexts :
           text /= <<>> /\ file = start_file \o text \o appends[1].text

\* The scenario of C13: the file "USER PROMPT:\nHello", and a turn over it
\* that ended with the reply "Hi there", not truncated, as its only append,
\* the user having saved nothing since the program started.
C13_HelloFile == <<"U","S","E","R"," ","P","R","O","M","P","T",":",NL,"H","e","l","l","o">>
C13_Hello == <<"H","e","l","l","o">>
C13_HiThere == <<"H","i"," ","t","h","e","r","e">>
C13_Scenario ==
    /\ InTurn /\ start_file = C13_HelloFile
    /\ ppc = "returned" /\ result = "ok"
    /\ last_reply = [content |-> C13_HiThere, truncated |-> FALSE]
    /\ Len(appends) = 1
    /\ nedits = 0

\* C13 as stated: in the scenario the text appended is
\* "GROK RESPONSE:\nHi there\n\nUSER PROMPT:\n", the file parsed at the start
\* to one user message "Hello" and parses afterwards to user "Hello",
\* assistant "Hi there".
C13_AppendsMarkerReplyMarker ==
    C13_Scenario
        => /\ parse_chat_messages(start_file) = <<Message("user", C13_Hello)>>
           /\ appends[1].text =
                <<"G","R","O","K"," ","R","E","S","P","O","N","S","E",":",NL,"H","i"," ","t","h","e","r","e",NL,NL,"U","S","E","R"," ","P","R","O","M","P","T",":",NL>>
           /\ parse_chat_messages(file)
                = <<Message("user", C13_Hello), Message("assistant", C13_HiThere)>>

\* C13, amended: in the scenario the text appended is
\* "\nGROK RESPONSE:\nHi there\n\nUSER PROMPT:\n\n" (a newline before the
\* assistant marker and an empty line after the user marker), the file is
\* the start content followed by it, and the parsed lists are as stated.
C13_AppendsNewlineMarkerReplyMarkerNewline ==
    C13_Scenario
        => /\ parse_chat_messages(start_file) = <<Message("user", C13_Hello)>>
           /\ appends[1].text =
                <<NL,"G","R","O","K"," ","R","E","S","P","O","N","S","E",":",NL,"H","i"," ","t","h","e","r","e",NL,NL,"U","S","E","R"," ","P","R","O","M","P","T",":",NL,NL>>
           /\ file = start_file \o appends[1].text
           /\ parse_chat_messages(file)
                = <<Message("user", C13_Hello), Message("assistant", C13_HiThere)>>

\* The scenario of C13 has happened.
C13_Witness == C13_Scenario /\ appends[1].kind = "final" /\ requests /= <<>>

\* The messages written one after the other in the format of the appends:
\* the marker line of the role, the content, an empty line.
C14_Written(messages) ==
    ConcatAll([i \in 1..Len(messages) |->
        (IF messages[i].role = "user" THEN USER_PROMPT_MARKER ELSE GROK_RESPONSE_MARKER)
            \o <<":", NL>> \o messages[i].content \o <<NL, NL>>])

C14_SameMessages(ms1, ms2) ==
    /\ Len(ms1) = Len(ms2)
    /\ \A i \in 1..Len(ms1) :
           /\ ms1[i].role = ms2[i].role
           /\ Trim(ms1[i].content) = Trim(ms2[i].content)

\* C14: for the transcript a pass has parsed, writing the parsed messages in
\* the format of the appends and parsing that text gives the same messages:
\* as many, with the same roles and the same trimmed contents, in order.
C14_ParseRoundTrip ==
    (InTurn /\ ppc /= "outer")
        => \E ms \in {parse_chat_messages(start_file)} :
               C14_SameMessages(ms, parse_chat_messages(C14_Written(ms)))

\* The override directives of a transcript: the matches of a directive in
\* the user messages, in transcript order.
C15_UserContents(messages) ==
    LET users == SelectSeq(messages, LAMBDA m : m.role = "user")
    IN  [i \in 1..Len(users) |-> users[i].content]

C15_Directives(re, contents) ==
    ConcatAll([i \in 1..Len(contents) |-> captures_iter(re, contents[i])])

C15_WithoutDirectives(re, text) == StripMatches(text, captures_iter(re, text))

\* The first request of the turn is about to be built.
C15_Resolved == InTurn /\ ppc = "inner" /\ requests = <<>>

\* C15 as stated: the level is the number of the last level directive of the
\* user messages, or the default; the temperature is the number of the last
\* temperature directive, or the default; no user message that is sent holds
\* a directive.
C15_LastDirectiveWins ==
    C15_Resolved =>
        \E messages \in {parse_chat_messages(start_file)} :
        \E contents \in {C15_UserContents(messages)} :
        \E ts \in {C15_Directives("t", contents)} :
        \E ps \in {C15_Directives("p", contents)} :
            /\ current_level = IF ts = <<>> THEN default_level
                               ELSE DigitsValue(StripZeros(Last(ts).cap), 0)
            /\ local_temperature = IF ps = <<>> THEN DefaultTemperature
                                   ELSE ParseF32(Last(ps).cap)
            /\ \A i \in 1..Len(api_messages) :
                   api_messages[i].role = "user"
                       => /\ captures_iter("t", api_messages[i].content) = <<>>
                          /\ captures_iter("p", api_messages[i].content) = <<>>

\* C15, amended: the level is the number of the last level directive whose
\* number fits 32 bits, capped at MAX_LEVEL, or the default; the temperature
\* is the number of the last temperature directive found once the level
\* directives are removed, or the default; and each user message is sent as
\* the expansion of its content with the matches of the level directive
\* removed and then the matches of the temperature directive removed.
C15_LastDirectiveWinsCapped ==
    C15_Resolved =>
        \E messages \in {parse_chat_messages(start_file)} :
        \E contents \in {C15_UserContents(messages)} :
        \E ts \in {SelectSeq(C15_Directives("t", contents),
                              LAMBDA m : ParseU32(m.cap) /= None)} :
        \E ps \in {C15_Directives("p",
                       [i \in 1..Len(contents) |-> C15_WithoutDirectives("t", contents[i])])} :
            /\ current_level = IF ts = <<>> THEN default_level
                               ELSE MinOf({MAX_LEVEL, ParseU32(Last(ts).cap)})
            /\ local_temperature = IF ps = <<>> THEN DefaultTemperature
                                   ELSE ParseF32(Last(ps).cap)
            /\ Len(api_messages) = Len(messages)
            /\ \A i \in 1..Len(messages) :
                   /\ api_messages[i].role = messages[i].role
                   /\ api_messages[i].content =
                        IF messages[i].role = "user"
                        THEN expand_placeholders(
                                 C15_WithoutDirectives("p",
                                     C15_WithoutDirectives("t", messages[i].content)))
                        ELSE messages[i].content

\* A turn whose level comes from a directive of an earlier user message, the
\* last user message holding none, with every directive removed.
C15_Witness ==
    /\ C15_Resolved /\ current_level = 1 /\ default_level /= 1
    /\ Len(api_messages) >= 2
    /\ \E messages \in {parse_chat_messages(start_file)} :
           /\ captures_iter("t", messages[1].content) /= <<>>
           /\ captures_iter("t", Last(messages).content) = <<>>

\* C16: every request of a turn has max_tokens = 512 * 2^level for a level in
\* 0..MAX_LEVEL, so at most 16384; while a request is being built or is in
\* flight the level is in 0..MAX_LEVEL; after a level directive above
\* MAX_LEVEL the first request is at MAX_LEVEL; and a request that follows
\* another in the same inner loop (no file request between them) has
\* max_tokens not below it.
C16_LevelBounded ==
    /\ \A i \in 1..Len(requests) :
           /\ \E level \in 0..MAX_LEVEL : requests[i].max_tokens = parse_level(level)
           /\ requests[i].max_tokens <= 16384
    /\ ppc \in {"inner", "await"} => current_level \in 0..MAX_LEVEL
    /\ ("level_capped" \in console /\ requests /= <<>> /\ NumFileRequests = 0)
           => requests[1].max_tokens = parse_level(MAX_LEVEL)
    /\ \A i \in 1..(Len(requests) - 1) :
           (i <= Len(outcomes) /\ outcomes[i] /= "file_request")
               => requests[i + 1].max_tokens >= requests[i].max_tokens

\* A directive above MAX_LEVEL, a request at MAX_LEVEL answered by a
\* truncated reply, which was appended as the final response.
C16_Witness ==
    /\ "level_capped" \in console /\ auto_increase_max_tokens
    /\ Len(requests) = 1 /\ requests[1].max_tokens = 16384
    /\ outcomes = <<"final">> /\ last_reply.truncated

\* The artifact block for the paths of a request: two newlines, the header
\* line, and a line "@f:<path>" for each path in the order of the request.
C17_Block(paths) ==
    <<NL,NL,"G","R","O","K"," ","R","E","Q","U","E","S","T","E","D"," ","F","I","L","E","S",":",NL>>
        \o ConcatAll([i \in 1..Len(paths) |-> <<"@","f",":">> \o paths[i] \o <<NL>>])

\* The latest reply of the turn was accepted as a file request.
C17_Accepted == InTurn /\ outcomes /= <<>> /\ Last(outcomes) = "file_request"

\* C17: once a reply is accepted as a file request, what the turn has
\* appended is one artifact block per accepted request and nothing else, the
\* last block being the header and the directives of the paths of that reply
\* in order; the block holds neither the assistant marker nor the reply; no
\* sound was played; and the step that follows reads the file again: the
\* messages it prepares are those of the file with the artifact in it.
C17_FileRequestAppendsOnlyArtifact ==
    /\ [](C17_Accepted =>
            /\ Len(appends) = NumFileRequests
            /\ \A i \in 1..Len(appends) : appends[i].kind = "artifact"
            /\ Last(appends).text = C17_Block(RequestedPaths(RequestRest(last_reply.content)))
            /\ file = start_file \o AppendedText
            /\ ~Contains(Last(appends).text, GROK_RESPONSE_MARKER)
            /\ ~Contains(Last(appends).text, last_reply.content)
            /\ sounds = <<>>
            /\ ppc \in {"outer", "inner", "await"})
    /\ [][(C17_Accepted /\ ppc = "outer")
            => /\ ppc' = "inner"
               /\ file' = file
               /\ api_messages' = Prepare(file, default_level, DefaultTemperature,
                                          auto_request_files).api_messages]_vars

\* A request for two paths was accepted, its artifact appended, and the next
\* outer iteration has read the file again.
C17_Witness ==
    /\ C17_Accepted /\ ppc = "inner" /\ Len(appends) = 1
    /\ Len(RequestedPaths(RequestRest(last_reply.content))) = 2

\* C19: a reply accepted as a file request is, once trimmed, a single line:
\* the request marker, one space and a list of paths separated by commas;
\* so a reply with further lines is appended as the final response.
C19_FileRequestIsSingleLine ==
    (InTurn /\ Len(outcomes) = 1 /\ outcomes[1] = "file_request")
        => \E trimmed \in {Trim(last_reply.content)} :
               /\ StartsWith(trimmed, REQUEST_PREFIX \o <<" ">>)
               /\ ~Contains(trimmed, <<NL>>)

\* A requested path that is a glob with matches in the project directory,
\* or a directory in it.
C20_GlobOrDirInside(p) ==
    /\ ~IsTraversal(p)
    /\ IF Contains(p, <<"*">>)
       THEN GlobPaths(p).paths /= {}
       ELSE path_is_dir(p) /\ CanonInsideCwd(p)

\* C20: a reply in the request format whose paths are globs with matches in
\* the project directory or directories in it is accepted, and the artifact
\* appended holds a directive for each of them.
C20_GlobOrDirectoryAccepted ==
    (InTurn /\ Len(outcomes) = 1 /\ auto_request_files /\ HasRequestForm(last_reply.content))
        => \E paths \in {RequestedPaths(RequestRest(last_reply.content))} :
               (paths /= <<>> /\ \A k \in 1..Len(paths) : C20_GlobOrDirInside(paths[k]))
                   => /\ outcomes[1] = "file_request"
                      /\ Len(appends) = 1
                      /\ appends[1].text = C17_Block(paths)

\* The step received a decoded reply (a body with a first choice).
C21_ReplyStep ==
    /\ Len(outcomes') = Len(outcomes) + 1
    /\ Last(outcomes') \in {"file_request", "escalate", "final"}

\* C21: a decoded reply is handled as a file request exactly when it is a
\* valid file request (with handling enabled), whether or not it is marked
\* truncated and whether or not escalations came before it; the step that
\* handles a file request leaves the level as it is and sends nothing.
C21_FileRequestBeforeTruncation ==
    [][C21_ReplyStep
          => /\ (Last(outcomes') = "file_request")
                   <=> (FileRequestPaths(last_reply'.content, auto_request_files) /= <<>>)
             /\ (Last(outcomes') = "file_request")
                   => (current_level' = current_level /\ requests' = requests)]_vars

\* After an escalation, a reply that is a valid file request and is marked
\* truncated, below the maximum level: it was handled as a file request.
C21_Witness ==
    /\ auto_increase_max_tokens
    /\ outcomes = <<"escalate", "file_request">>
    /\ last_reply.truncated
    /\ current_level < MAX_LEVEL

\* C22: the request sent first after a file-request round has the level,
\* the temperature and the messages resolved from the file as it is then,
\* artifact included; its level is the one of the first request of the turn
\* (the artifact holds no override), whatever the escalations before it.
C22_FreshResolutionAfterFileRequest ==
    /\ [](\A i \in 1..(Len(requests) - 1) :
            outcomes[i] = "file_request"
                => requests[i + 1].max_tokens = requests[1].max_tokens)
    /\ [][(Len(requests') = Len(requests) + 1
              /\ outcomes /= <<>> /\ Last(outcomes) = "file_request")
            => \E prep \in {Prepare(file, default_level, DefaultTemperature,
                                    auto_request_files)} :
                   Last(requests') = ChatRequest(prep.api_messages, prep.temperature,
                                                 prep.level)]_vars

\* An escalation, then an accepted file request, then a request at the
\* level the turn started with.
C22_Witness ==
    /\ Len(requests) = 3
    /\ outcomes[1] = "escalate" /\ outcomes[2] = "file_request"
    /\ requests[2].max_tokens = 2 * requests[1].max_tokens
    /\ requests[3].max_tokens = requests[1].max_tokens

\* C23: with both flags disabled, a turn sends at most one request, without
\* a system message; whatever it appends is a final response; a decoded
\* reply, truncated or in the file-request form or not, is the only outcome
\* and is appended as the final response, after which the turn plays the
\* chime and returns without error (the file then holds the start content
\* and the appended reply, followed by what the user saved meanwhile, if
\* anything); and an eligible turn with the credential present that has
\* returned has sent exactly one request.
C23_FlagsDisabledOneRequest ==
    (InTurn /\ ~auto_request_files /\ ~auto_increase_max_tokens)
        => /\ Len(requests) <= 1
           /\ \A i \in 1..Len(requests) : \A k \in 1..Len(requests[i].messages) :
                  requests[i].messages[k].role /= "system"
           /\ \A i \in 1..Len(appends) : appends[i].kind = "final"
           /\ (outcomes /= <<>> /\ Last(outcomes) \in {"file_request", "escalate", "final"})
                  => /\ outcomes = <<"final">>
                     /\ ppc \in {"chime", "returned"}
                     /\ ppc = "returned" => result = "ok"
                     /\ appends = <<[kind |-> "final", text |-> FinalText(last_reply.content)]>>
                     /\ IsPrefix(start_file \o FinalText(last_reply.content), file)
                     /\ file /= start_file \o FinalText(last_reply.content) => nedits > 0
           /\ (ppc = "returned" /\ api_key
                   /\ ~C4_Ineligible(parse_chat_messages(start_file)))
                  => Len(requests) = 1

\* With both flags disabled, a truncated reply in the file-request form with
\* valid paths was appended as the final response.
C23_Witness ==
    /\ InTurn /\ ~auto_request_files /\ ~auto_increase_max_tokens
    /\ outcomes = <<"final">> /\ last_reply.truncated
    /\ FileRequestPaths(last_reply.content, TRUE) /= <<>>
    /\ Len(requests) = 1

\* What a piece of the prompt is expected to become: the block of file a,
\* the listing of directory d, and for every other piece (the word and the
\* placeholders whose expansion fails) the piece itself.
C24_Expected(piece) ==
    IF piece = <<"@","f",":","a">>
    THEN <<"C","o","n","t","e","n","t","s"," ","o","f"," ","a",":",NL,BQ,BQ,BQ,NL,"A",NL,BQ,BQ,BQ,NL,NL>>
    ELSE IF piece = <<"@","d",":","d">>
    THEN <<"C","o","n","t","e","n","t","s"," ","o","f"," ","d","i","r","e","c","t","o","r","y"," ","d",":",NL,BQ,BQ,BQ,NL,"f",NL,BQ,BQ,BQ,NL>>
    ELSE piece

C24_ExpectedText(pieces) ==
    ConcatAll([i \in 1..Len(pieces) |->
                  (IF i > 1 THEN <<" ">> ELSE <<>>) \o C24_Expected(pieces[i])])

\* The placeholders of the prompt whose expansion fails.
C24_Failing(pieces) ==
    {i \in 1..Len(pieces) : pieces[i] \in {<<"@","f",":","m">>, <<"@","f",":","z","*">>, <<"@","f",":","n">>,
                                            <<"@","d",":","a">>, <<"@","f",":","u">>}}

\* C24: a prompt with placeholders whose expansion fails never makes the
\* turn return an error; the message prepared and sent is the prompt with
\* each failing placeholder left as written, at its place, and every other
\* placeholder replaced by its expansion.
C24_FailedDirectiveKept ==
    /\ ~TurnFailed
    /\ (InTurn /\ ppc = "returned") => Trim(start_file) = <<>>
    /\ (InTurn /\ ppc \in {"inner", "await"})
           => \E expected \in {C24_ExpectedText(Split(Trim(start_file), " "))} :
                  /\ api_messages = <<Message("user", expected)>>
                  /\ \A i \in 1..Len(requests) :
                         requests[i].messages = <<Message("user", expected)>>

\* A request was sent for a prompt with a placeholder that fails between
\* two that expand.
C24_Witness ==
    /\ ppc = "await" /\ Len(requests) = 1
    /\ \E pieces \in {Split(Trim(start_file), " ")} :
           /\ Len(pieces) = 3
           /\ C24_Failing(pieces) = {2}
           /\ C24_Expected(pieces[1]) /= pieces[1]
           /\ C24_Expected(pieces[3]) /= pieces[3]

\* The step appended a File-Request Artifact.
C25_ArtifactStep ==
    /\ Len(appends') = Len(appends) + 1
    /\ Last(appends').kind = "artifact"

\* C25: the step that appends an artifact leaves the parsed transcript with
\* as many messages, the same but for the last one, which has role user and
\* whose content is the content it had followed by the artifact text (white
\* space at the join and at the end apart); the transcript is still
\* eligible; and the request that follows holds the expansion of the
\* directives of the artifact.
C25_ArtifactExtendsLastUserMessage ==
    /\ [][C25_ArtifactStep
            => \E before \in {parse_chat_messages(file)} :
               \E after \in {parse_chat_messages(file')} :
                   /\ Len(after) = Len(before)
                   /\ \A i \in 1..(Len(before) - 1) : after[i] = before[i]
                   /\ Last(after).role = "user"
                   /\ IsPrefix(Last(before).content, Last(after).content)
                   /\ Trim(SubSeq(Last(after).content, Len(Last(before).content) + 1,
                                   Len(Last(after).content)))
                        = Trim(Last(appends').text)
                   /\ ~NothingToSend(after)]_vars
    /\ [](\A i \in 1..(Len(requests) - 1) :
            outcomes[i] = "file_request"
                => \E sent \in {Last(requests[i + 1].messages)} :
                       /\ sent.role = "user"
                       /\ Contains(sent.content, FileBlock(<<"a">>, <<"A">>))
                       /\ Contains(sent.content, FileBlock(<<"d","/","f">>, <<"F">>)))

C26_EndsWith(text, tail) ==
    /\ Len(tail) <= Len(text)
    /\ SubSeq(text, Len(text) - Len(tail) + 1, Len(text)) = tail

\* The text ends with what the tool appends for a final reply.
C26_EndsWithFinalAppend(text) ==
    \E content \in Replies \cup BlankReplies : C26_EndsWith(text, FinalText(content))

\* C26: a pass that reads the file as the tool's own final append left it
\* (nothing written after the appended text) sends no request, whatever the
\* content of the appended reply was.
C26_OwnAppendSendsNothing ==
    requests /= <<>> => ~C26_EndsWithFinalAppend(start_file)

\* C27: the last message of every request sent has role user and a content
\* that is not empty once trimmed, the override directives being removed.
C27_LastMessageIsUserPrompt ==
    \A i \in 1..Len(requests) :
        \E sent \in {Last(requests[i].messages)} :
            /\ sent.role = "user"
            /\ Trim(sent.content) /= <<>>

\* The watcher polls and finds the modification time it has already seen:
\* no call of process_chat_file follows unless the file is written again.
C28_NothingPending == mpc = "poll" /\ mtime <= last_mtime

\* C28: when the watcher polls with nothing pending, every write of the
\* user was read by a call of process_chat_file: the file is what the latest
\* call read when it started, followed by what that call appended; and
\* process_chat_file runs only inside one of main's two calls.
C28_NoUserWriteUnread ==
    /\ C28_NothingPending
           => file = start_file \o ConcatAll([i \in 1..Len(appends) |-> appends[i].text])
    /\ ppc /= "idle" => InTurn
====
